---- MODULE Spec2Model ----
(***************************************************************************)
(* A model of the SEO audit pipeline of seo_audit_polars.py and of the     *)
(* insight rules of seo_insights_polars.py.                                *)
(*                                                                         *)
(* Text values (URLs, titles) are sequences of one-character strings, so   *)
(* that trimming, lower-casing and slash stripping are computed character  *)
(* by character.  Python's None / a polars null is the value Null.         *)
(***************************************************************************)
EXTENDS Integers, Sequences, FiniteSets, TLC

VARIABLES
    u_in,        \* normalize_url: the pair of raw URLs handed to it
    u_norm,      \* normalize_url: the pair of results, Null before the call
    crawldf,     \* the crawl table (Page Record Store)
    sitemap_df,  \* the sitemap table (Sitemap Record Store), None when absent
    comp_runs,   \* the tables returned by successive report_sitemap_vs_crawl calls
    pc,          \* main: the statement it is at
    crawl_result,\* main: what crawl_site returned (None or a table), before safe_run
    dfs,         \* main: the report tables, by the name of the variable holding them
    csv_files,   \* main: the CSV files written so far
    sections,    \* save_insight_report: the list of (name, insight, df_preview)
    html_file,   \* the HTML report file, NoFile until written
    pdf_file,    \* the PDF report file, NoFile until written
    call,        \* a single function or request handler: the inputs it is called with
    ret,         \* a single function or request handler: what it has computed so far
    job_queue,   \* queue-based API: the job registry, job id -> record
    now,         \* queue-based API: the clock, seconds and instants within them
    str_hash     \* queue-based API: hash() of the strings, fixed for the process

normVars == <<u_in, u_norm>>
mainVars == <<pc, crawl_result, dfs, csv_files, sections, html_file, pdf_file>>
fnVars == <<call, ret>>
queueVars == <<job_queue, now, str_hash>>
vars == <<u_in, u_norm, crawldf, sitemap_df, comp_runs, pc, crawl_result, dfs, csv_files,
          sections, html_file, pdf_file, call, ret, job_queue, now, str_hash>>

\* A local variable assignment, x = v followed by the statements body(x): v is
\* computed once and body sees its value.
Let(v, body(_)) == CHOOSE y \in { body(x) : x \in { v } } : TRUE

Unset == [unset |-> TRUE]      \* a variable not assigned yet
NoFile == [exists |-> FALSE]   \* a file that does not exist
File(content) == [exists |-> TRUE, content |-> content]

\* The queue-based API is not running.
QueueIdle == job_queue = Unset /\ now = Unset /\ str_hash = Unset

\* No single function or handler is under check (the pipeline specifications).
FnIdle == call = Unset /\ ret = Unset

\* main is not running (the specifications of single functions).
MainIdle ==
    /\ pc = "idle"
    /\ crawl_result = Unset
    /\ dfs = <<>>
    /\ csv_files = {}
    /\ sections = <<>>
    /\ html_file = NoFile
    /\ pdf_file = NoFile

\* None / null.  A one-element sequence whose element is no character of any text.
Null == <<"NULL">>

-----------------------------------------------------------------------------
(* Character helpers: str.strip(), str.lower(), str.endswith, str.rstrip   *)

Whitespace == {" "}

UpperCase == <<"A","B","C","D","E","F","G","H","I","J","K","L","M","N","O","P","Q","R","S","T","U","V","W","X","Y","Z">>
LowerCase == <<"a","b","c","d","e","f","g","h","i","j","k","l","m","n","o","p","q","r","s","t","u","v","w","x","y","z">>

UpperCaseSet == { UpperCase[i] : i \in 1..Len(UpperCase) }

lower_char(c) ==
    IF c \in UpperCaseSet
    THEN LowerCase[CHOOSE i \in 1..Len(UpperCase) : UpperCase[i] = c]
    ELSE c

lower(s) == [i \in 1..Len(s) |-> lower_char(s[i])]

RECURSIVE lstrip_ws(_)
lstrip_ws(s) ==
    IF s # <<>> /\ Head(s) \in Whitespace THEN lstrip_ws(Tail(s)) ELSE s

RECURSIVE rstrip_ws(_)
rstrip_ws(s) ==
    IF s # <<>> /\ s[Len(s)] \in Whitespace
    THEN rstrip_ws(SubSeq(s, 1, Len(s) - 1))
    ELSE s

strip(s) == rstrip_ws(lstrip_ws(s))

endswith(s, c) == s # <<>> /\ s[Len(s)] = c

\* str.rstrip("/"): removes EVERY trailing occurrence of the character.
RECURSIVE rstrip_chars(_, _)
rstrip_chars(s, c) ==
    IF endswith(s, c) THEN rstrip_chars(SubSeq(s, 1, Len(s) - 1), c) ELSE s

-----------------------------------------------------------------------------
(* normalize_url                                                           *)

\* len("http://a"), the length the guard of normalize_url compares with.
MinUrlLen == 8

normalize_url(u) ==
    IF u = Null
    THEN u
    ELSE LET s == lower(strip(u))
         IN  IF endswith(s, "/") /\ Len(s) > MinUrlLen
             THEN rstrip_chars(s, "/")
             ELSE s

-----------------------------------------------------------------------------
(* Texts used as inputs                                                    *)

HttpA      == <<"h","t","t","p",":","/","/","a">>
HttpsACom  == <<"h","t","t","p","s",":","/","/","a",".","c","o","m">>
Slash      == <<"/">>
RootUrl    == HttpsACom \o Slash                  \* "https://a.com/"
PageP      == HttpA \o <<"/","p">>                 \* "http://a/p"
PagePUpper == HttpA \o <<"/","P","/">>             \* "http://a/P/"
PageQ      == HttpA \o <<"/","q">>                 \* "http://a/q"

FtpA       == <<"f","t","p",":","/","/","a">>      \* "ftp://a": with "/" exactly 8 long

NormBases ==
    { HttpA, FtpA, HttpsACom, PageP, HttpA \o <<"/","P">>, PageQ,
      PageP \o <<"?","q">>, PageP \o <<"?","p">> }

NormTails == { <<>>, <<"/">>, <<"/","/">>, <<" ">>, <<"/"," ">> }

NormInputs == { b \o t : b \in NormBases, t \in NormTails } \cup { <<" ">> \o PageP }

-----------------------------------------------------------------------------
(* Specification SpecNorm: normalize_url applied to a pair of raw URLs     *)

InitNorm ==
    /\ QueueIdle
    /\ u_in \in NormInputs \X NormInputs
    /\ u_norm = <<Null, Null>>
    /\ crawldf = Unset
    /\ sitemap_df = Unset
    /\ comp_runs = <<>>
    /\ MainIdle
    /\ FnIdle

Normalize ==
    /\ u_norm = <<Null, Null>>
    /\ u_norm' = <<normalize_url(u_in[1]), normalize_url(u_in[2])>>
    /\ UNCHANGED <<queueVars, u_in, crawldf, sitemap_df, comp_runs, mainVars, fnVars>>

NextNorm == Normalize

SpecNorm == InitNorm /\ [][NextNorm]_vars

-----------------------------------------------------------------------------
(* C6: normalization as the specification words it                         *)

\* s is scheme "://" host and nothing more (no path, no trailing slash).
IsSchemeHost(s) ==
    \E i \in 1..Len(s) :
        /\ i + 2 < Len(s)
        /\ s[i] = ":" /\ s[i+1] = "/" /\ s[i+2] = "/"
        /\ \A j \in 1..Len(s) : (j < i \/ j > i + 2) => s[j] \notin {"/", ":", "?"}

DropLast(s) == SubSeq(s, 1, Len(s) - 1)

\* Trim, lower-case, strip the trailing slash unless the URL is scheme+host(+"/").
NormalizeAsSpecified(u) ==
    LET s == lower(strip(u))
    IN  IF endswith(s, "/") /\ IsSchemeHost(DropLast(s))
        THEN s
        ELSE rstrip_chars(s, "/")

DifferOnlyByCaseOrPathSlash(a, b) ==
    LET s == strip(a)
        t == strip(b)
    IN  \/ lower(s) = lower(t)
        \/ /\ ~IsSchemeHost(lower(t))
           /\ lower(s) = lower(t) \o Slash

DifferByQuery(a, b) ==
    LET s == rstrip_chars(lower(strip(a)), "/")
        t == rstrip_chars(lower(strip(b)), "/")
    IN  /\ s # t
        /\ \E i \in 1..Len(s) :
              /\ i <= Len(t)
              /\ s[i] = "?" /\ t[i] = "?"
              /\ SubSeq(s, 1, i) = SubSeq(t, 1, i)

\* C6 (as claimed): URL normalization trims, lower-cases and strips the trailing
\* slash of every URL except one that is just scheme+host, which keeps its form;
\* URLs differing only by case or a trailing path slash normalize alike, and URLs
\* differing by query string stay distinct.
C6_NormalizationAsClaimed ==
    u_norm # <<Null, Null>> =>
        /\ \A k \in 1..2 : u_norm[k] = NormalizeAsSpecified(u_in[k])
        /\ DifferOnlyByCaseOrPathSlash(u_in[1], u_in[2]) => u_norm[1] = u_norm[2]
        /\ DifferByQuery(u_in[1], u_in[2]) => u_norm[1] # u_norm[2]

\* The scheme+host URL "https://a.com/" has been normalized.
C6_RootUrlNormalized ==
    u_in[1] = RootUrl /\ u_norm[1] # Null

-----------------------------------------------------------------------------
(* Tables (polars DataFrames): an ordered column list and an ordered row   *)
(* list; a row is a record keyed by column name.                           *)

DataFrame(cols, rows) == [cols |-> cols, rows |-> rows]

\* None where a table is expected (a record, so that it compares with tables).
None == [none |-> TRUE]

\* pl.DataFrame(): no columns, no rows.
EmptyFrame == DataFrame(<<>>, <<>>)

\* pl.DataFrame(schema={...}): the columns, no rows.
SchemaFrame(cols) == DataFrame(cols, <<>>)

\* df.is_empty(): the table has no rows (whatever its columns).
is_empty(df) == Len(df.rows) = 0

\* dict.get(key, None) on a row.
Get(row, key) == IF key \in DOMAIN row THEN row[key] ELSE Null

Range(f) == { f[i] : i \in DOMAIN f }

RowSet(df) == Range(df.rows)

\* The orders in which Python may iterate over a set.
IterationOrders(S) ==
    { f \in [1..Cardinality(S) -> S] : \A i, j \in DOMAIN f : i # j => f[i] # f[j] }

-----------------------------------------------------------------------------
(* report_sitemap_vs_crawl                                                 *)

CompSchema == <<"url", "in_crawl", "in_sitemap", "orphaned", "uncatalogued", "lastmod", "sitemap">>

\* set(crawl_df_norm["url_norm"])
crawl_urls_of(crawl_df) == { normalize_url(r.url) : r \in Range(crawl_df.rows) }

\* sm_df with the loc_norm column added
with_loc_norm(sm) ==
    [i \in 1..Len(sm.rows) |->
        [loc_norm |-> normalize_url(sm.rows[i].loc), rec |-> sm.rows[i]]]

site_urls_of(sm) == { r.loc_norm : r \in Range(with_loc_norm(sm)) }

\* all_urls = crawl_urls.union(site_urls); empty on the early return.
all_urls_unmatched(sm, crawl_df) ==
    IF sm = None \/ is_empty(sm)
    THEN {}
    ELSE crawl_urls_of(crawl_df) \cap site_urls_of(sm)

all_urls(sm, crawl_df) ==
    IF sm = None \/ is_empty(sm)
    THEN {}
    ELSE crawl_urls_of(crawl_df) \cup site_urls_of(sm)

\* sm_df.filter(pl.col("loc_norm") == u).row(0, named=True)
first_match(smn, u) ==
    smn[CHOOSE i \in 1..Len(smn) :
            /\ smn[i].loc_norm = u
            /\ \A j \in 1..(i - 1) : smn[j].loc_norm # u].rec

\* One iteration of the loop over all_urls: the row appended for u.
recon_row_no_negation(u, crawl_urls, site_urls, smn) ==
    LET in_crawl   == u \in crawl_urls
        in_sitemap == u \in site_urls
        row_data   == IF in_sitemap THEN first_match(smn, u) ELSE [loc |-> u]
    IN  [ url          |-> u,
          in_crawl     |-> in_crawl,
          in_sitemap   |-> in_sitemap,
          orphaned     |-> in_sitemap,
          uncatalogued |-> in_crawl /\ ~in_sitemap,
          lastmod      |-> IF in_sitemap THEN Get(row_data, "lastmod") ELSE Null,
          sitemap      |-> IF in_sitemap THEN Get(row_data, "sitemap") ELSE Null ]

recon_row(u, crawl_urls, site_urls, smn) ==
    LET in_crawl   == u \in crawl_urls
        in_sitemap == u \in site_urls
        row_data   == IF in_sitemap THEN first_match(smn, u) ELSE [loc |-> u]
    IN  [ url          |-> u,
          in_crawl     |-> in_crawl,
          in_sitemap   |-> in_sitemap,
          orphaned     |-> in_sitemap /\ ~in_crawl,
          uncatalogued |-> in_crawl /\ ~in_sitemap,
          lastmod      |-> IF in_sitemap THEN Get(row_data, "lastmod") ELSE Null,
          sitemap      |-> IF in_sitemap THEN Get(row_data, "sitemap") ELSE Null ]

\* The loop with the else-branch (lastmod = None, sitemap_source = None) left out:
\* a URL outside the sitemap inherits the values of the previous iteration.
RECURSIVE recon_rows_stale(_, _, _, _)
recon_rows_stale(order, crawl_urls, site_urls, smn) ==
    IF order = <<>>
    THEN <<>>
    ELSE LET n    == Len(order)
             prev == recon_rows_stale(SubSeq(order, 1, n - 1), crawl_urls, site_urls, smn)
             row  == recon_row(order[n], crawl_urls, site_urls, smn)
         IN  IF order[n] \in site_urls \/ prev = <<>>
             THEN Append(prev, row)
             ELSE Append(prev, [row EXCEPT !.lastmod = prev[n - 1].lastmod,
                                           !.sitemap = prev[n - 1].sitemap])

\* rows = []; for u in all_urls: rows.append({...}), in iteration order `order`.
recon_rows(order, crawl_urls, site_urls, smn) ==
    [k \in 1..Len(order) |-> recon_row(order[k], crawl_urls, site_urls, smn)]

\* The whole function; `order` is the order in which the set all_urls is iterated.
report_sitemap_vs_crawl(sm, crawl_df, order) ==
    IF sm = None \/ is_empty(sm)
    THEN SchemaFrame(CompSchema)
    ELSE DataFrame(CompSchema,
                   recon_rows(order, crawl_urls_of(crawl_df), site_urls_of(sm),
                              with_loc_norm(sm)))

-----------------------------------------------------------------------------
(* Specification SpecRecon: report_sitemap_vs_crawl called repeatedly on   *)
(* one crawl table and one sitemap table                                   *)

MaxPages == 2          \* rows of the crawl table
MaxSitemapRows == 2    \* rows of the sitemap table
MaxReconRuns == 2      \* calls of report_sitemap_vs_crawl on the same inputs

SeqsUpTo(S, n) == UNION { [1..k -> S] : k \in 0..n }

ReconUrls == { PageP, PagePUpper, RootUrl }

LastmodA == <<"2","0","2","4">>
LastmodB == <<"2","0","2","5">>
SitemapFileA == <<"a",".","x","m","l">>
SitemapFileB == <<"b",".","x","m","l">>

SitemapRecords ==
    { [loc |-> u, lastmod |-> m[1], sitemap |-> m[2]] :
        u \in ReconUrls, m \in { <<LastmodA, SitemapFileA>>, <<LastmodB, SitemapFileB>> } }

SitemapSchema == <<"loc", "lastmod", "sitemap">>

ReconCrawlTables ==
    { DataFrame(<<"url">>, rows) : rows \in SeqsUpTo({ [url |-> u] : u \in ReconUrls }, MaxPages) }

ReconSitemapTables ==
    { DataFrame(SitemapSchema, rows) : rows \in SeqsUpTo(SitemapRecords, MaxSitemapRows) }

InitRecon ==
    /\ QueueIdle
    /\ u_in = <<Null, Null>>
    /\ u_norm = <<Null, Null>>
    /\ crawldf \in ReconCrawlTables
    /\ sitemap_df \in ReconSitemapTables \cup {None}
    /\ comp_runs = <<>>
    /\ MainIdle
    /\ FnIdle

Reconcile ==
    /\ Len(comp_runs) < MaxReconRuns
    /\ \E order \in IterationOrders(all_urls(sitemap_df, crawldf)) :
          comp_runs' = Append(comp_runs, report_sitemap_vs_crawl(sitemap_df, crawldf, order))
    /\ UNCHANGED <<queueVars, u_in, u_norm, crawldf, sitemap_df, mainVars, fnVars>>

NextRecon == Reconcile

SpecRecon == InitRecon /\ [][NextRecon]_vars

-----------------------------------------------------------------------------
(* Values shared by the pipeline operators                                 *)

\* The outcome "the call raised an exception" of a modelled function.
Raised == [raised |-> TRUE]

IsFrame(df) == df # None /\ df # Raised

has_cols(df, cols) == \A c \in Range(cols) : c \in Range(df.cols)

\* df.select(cols): raises when the table is None or a column is missing.
select(df, cols) ==
    IF ~IsFrame(df) \/ ~has_cols(df, cols)
    THEN Raised
    ELSE DataFrame(cols, [i \in 1..Len(df.rows) |-> [c \in Range(cols) |-> df.rows[i][c]]])

\* df.with_columns(...): every row extended by the record extra(row).
with_columns(df, newcols, extra(_)) ==
    DataFrame(df.cols \o newcols, [i \in 1..Len(df.rows) |-> extra(df.rows[i]) @@ df.rows[i]])

\* pl.col(c).fill_null("").str.len_chars()
len_chars(v) == IF v = Null THEN 0 ELSE Len(v)

RECURSIVE Sum(_)
Sum(seq) == IF seq = <<>> THEN 0 ELSE Head(seq) + Sum(Tail(seq))

\* pl.col(c).cast(Int64).fill_null(0).sum() of a Boolean column
bool_sum(df, c) ==
    Sum([i \in 1..Len(df.rows) |-> IF df.rows[i][c] = TRUE THEN 1 ELSE 0])

-----------------------------------------------------------------------------
(* safe_run                                                                *)

\* The wrapper with the substitution left out: the result is handed on as it is.
safe_run_no_fallback(result, expected_cols) == result

\* result is what func(*args) did: a table, None, or Raised.
safe_run(result, expected_cols) ==
    IF result = Raised \/ result = None \/ is_empty(result)
    THEN IF expected_cols # <<>> THEN SchemaFrame(expected_cols) ELSE EmptyFrame
    ELSE result

-----------------------------------------------------------------------------
(* Collaborators at the edge of the pipeline: crawl, robots, sitemap       *)

CrawlCols == <<"url", "title", "meta_desc", "h1", "canonical", "status">>

\* env: what the network and advertools did during the crawl.
crawl_site(env) ==
    IF ~env.reachable THEN None
    ELSE IF env.crawl_raises THEN None
    ELSE IF ~env.file_exists THEN None
    ELSE IF is_empty(env.data) THEN None
    ELSE env.data

RobotsCols == <<"directive", "content">>

\* env: "raises", or the table advertools parsed (possibly without rows).
analyze_robots_txt(env) ==
    IF env = Raised THEN None
    ELSE IF is_empty(env) THEN None
    ELSE env

\* parse_sitemap: None when advertools raised or returned nothing.
parse_sitemap(env) ==
    IF env = Raised THEN None
    ELSE IF is_empty(env) THEN None
    ELSE env

RECURSIVE concat(_)
concat(frames) ==
    IF frames = <<>> THEN <<>> ELSE Head(frames).rows \o concat(Tail(frames))

\* The results pl.concat(all).unique(subset=["loc"]) may give: one row per loc,
\* any of the rows sharing a loc, in any order.
unique_by_loc(rows) ==
    LET locs == { r.loc : r \in Range(rows) }
    IN  { f \in [1..Cardinality(locs) -> Range(rows)] :
            \A i, j \in DOMAIN f : i # j => f[i].loc # f[j].loc }

\* robots_env: the outcome of parsing the sitemaps named in robots.txt;
\* fallback_envs: the outcomes for the common sitemap paths, in order;
\* kept: the rows unique() kept of the concatenated fallback tables.
get_sitemap_df(robots_env, fallback_envs, kept) ==
    IF parse_sitemap(robots_env) # None
    THEN parse_sitemap(robots_env)
    ELSE LET parsed == [i \in 1..Len(fallback_envs) |-> parse_sitemap(fallback_envs[i])]
             found(t) == t # None
             all_sitemaps == SelectSeq(parsed, found)
         IN  IF all_sitemaps # <<>>
             THEN DataFrame(all_sitemaps[1].cols, kept)
             ELSE None

\* The row lists `kept` may be, for get_sitemap_df on these outcomes.
sitemap_kept_choices(robots_env, fallback_envs) ==
    LET parsed == [i \in 1..Len(fallback_envs) |-> parse_sitemap(fallback_envs[i])]
        found(t) == t # None
        all_sitemaps == SelectSeq(parsed, found)
    IN  IF parse_sitemap(robots_env) # None \/ all_sitemaps = <<>>
        THEN { <<>> }
        ELSE unique_by_loc(concat(all_sitemaps))

-----------------------------------------------------------------------------
(* Per-check reporters                                                     *)

MetaCols == <<"url", "title", "meta_desc">>

report_meta(crawl_df) ==
    LET df == select(crawl_df, MetaCols)
        derived(row) ==
            [ title_length        |-> len_chars(row.title),
              desc_length         |-> len_chars(row.meta_desc),
              title_missing       |-> (row.title = Null \/ row.title = <<>>),
              description_missing |-> (row.meta_desc = Null \/ row.meta_desc = <<>>) ]
    IN  IF df = Raised
        THEN Raised
        ELSE with_columns(df,
               <<"title_length", "desc_length", "title_missing", "description_missing">>,
               derived)

HeadingsCols == <<"url", "h1">>

\* expr_ok: whether polars accepts the dtype-dispatching when/then expression
\* (a library matter); when it does not, the reporter raises.
report_headings(crawl_df, expr_ok) ==
    LET df == select(crawl_df, HeadingsCols)
        h1_count(row) == IF row.h1 # Null /\ strip(row.h1) # <<>> THEN 1 ELSE 0
        derived(row) ==
            [ h1_count    |-> h1_count(row),
              missing_h1  |-> (h1_count(row) = 0),
              multiple_h1 |-> (h1_count(row) > 1) ]
    IN  IF df = Raised \/ ~expr_ok
        THEN Raised
        ELSE with_columns(df, <<"h1_count", "missing_h1", "multiple_h1">>, derived)

CanonCols == <<"url", "canonical">>

report_canonicals(crawl_df) ==
    LET df == select(crawl_df, CanonCols)
        derived(row) ==
            [ canonical_missing |-> (row.canonical = Null),
              self_referencing  |-> (row.canonical # Null /\ row.url # Null
                                        /\ row.canonical = row.url) ]
    IN  IF df = Raised
        THEN Raised
        ELSE with_columns(df, <<"canonical_missing", "self_referencing">>, derived)

StatusCols == <<"url", "status">>

StatusOptionalCols == <<"status", "redirect_urls", "redirect_times", "redirect_reasons">>

report_status_codes(crawl_df) ==
    IF ~IsFrame(crawl_df)
    THEN Raised
    ELSE LET present(c) == c \in Range(crawl_df.cols)
         IN  select(crawl_df, <<"url">> \o SelectSeq(StatusOptionalCols, present))

OverviewCols ==
    <<"total_crawled", "sitemap_urls", "missing_titles", "missing_descriptions",
      "multiple_h1s", "missing_canonicals", "orphaned_pages", "uncatalogued_pages">>

count_if_present(df, c) ==
    IF c \in Range(df.cols) THEN bool_sum(df, c) ELSE 0

build_overview(crawl_df, meta_df, headings_df, canon_df, sm, comp_df) ==
    IF ~IsFrame(crawl_df) \/ ~IsFrame(meta_df) \/ ~IsFrame(headings_df) \/ ~IsFrame(canon_df)
       \/ sm = Raised \/ comp_df = Raised
    THEN Raised
    ELSE DataFrame(OverviewCols,
           << [ total_crawled        |-> Len(crawl_df.rows),
                sitemap_urls         |-> IF sm # None THEN Len(sm.rows) ELSE 0,
                missing_titles       |-> count_if_present(meta_df, "title_missing"),
                missing_descriptions |-> count_if_present(meta_df, "description_missing"),
                multiple_h1s         |-> count_if_present(headings_df, "multiple_h1"),
                missing_canonicals   |-> count_if_present(canon_df, "canonical_missing"),
                orphaned_pages       |-> IF comp_df # None
                                         THEN count_if_present(comp_df, "orphaned") ELSE 0,
                uncatalogued_pages   |-> IF comp_df # None
                                         THEN count_if_present(comp_df, "uncatalogued") ELSE 0 ] >>)

\* report_sitemap_vs_crawl as main calls it: raises on a crawl table that is None
\* or has no url column.
report_sitemap_vs_crawl_call(sm, crawl_df, order) ==
    IF ~IsFrame(crawl_df) \/ sm = Raised \/ ~has_cols(crawl_df, <<"url">>)
    THEN Raised
    ELSE report_sitemap_vs_crawl(sm, crawl_df, order)

UrlStructCols == <<"url", "scheme", "netloc", "path">>

\* env: Raised when advertools' url_to_df raises, else the table it returned.
\* The function catches the exception itself and returns pl.DataFrame().
report_url_structure(crawl_df, env) ==
    IF ~IsFrame(crawl_df) \/ ~has_cols(crawl_df, <<"url">>) \/ env = Raised
    THEN EmptyFrame
    ELSE env

RedirectCols == <<"url", "redirect_url", "redirect_times">>

\* env: Raised when advertools' crawlytics.redirects raises, else its table.
report_redirects(crawl_df, env) ==
    IF ~IsFrame(crawl_df) \/ env = Raised
    THEN EmptyFrame
    ELSE env

NgramCols == <<"word", "abs_freq">>

\* env: Raised when advertools' word_frequency raises, else its table.
report_ngrams(crawl_df, env) ==
    IF ~IsFrame(crawl_df) \/ ~has_cols(crawl_df, <<"title", "meta_desc", "h1">>) \/ env = Raised
    THEN EmptyFrame
    ELSE env

RenderingCols == <<"url", "rendering_mode", "text_length", "script_count">>

TextLenThreshold == 200
ScriptCountThreshold == 20

\* "Likely Client-Side Rendered (CSR)"
ModeCSR ==
    <<"L","i","k","e","l","y"," ","C","l","i","e","n","t","-","S","i","d","e"," ","R","e","n","d","e","r","e","d"," ","(","C","S","R",")">>
\* "Possibly Client-Side Rendered (noscript fallback present)"
ModeNoscript ==
    <<"P","o","s","s","i","b","l","y"," ","C","l","i","e","n","t","-","S","i","d","e"," ","R","e","n","d","e","r","e","d"," ","(","n","o","s","c","r","i","p","t"," ","f","a","l","l","b","a","c","k"," ","p","r","e","s","e","n","t",")">>
\* "Likely Server-Side Rendered (SSR)"
ModeSSR ==
    <<"L","i","k","e","l","y"," ","S","e","r","v","e","r","-","S","i","d","e"," ","R","e","n","d","e","r","e","d"," ","(","S","S","R",")">>

\* The heuristic with the noscript test made before the test of the lengths.
check_rendering_mode_noscript_first(url, env) ==
    IF env = Raised
    THEN SchemaFrame(RenderingCols)
    ELSE DataFrame(RenderingCols,
           << [ url            |-> url,
                rendering_mode |->
                    IF env.noscript THEN ModeNoscript
                    ELSE IF env.text_len < TextLenThreshold /\ env.script_len > ScriptCountThreshold
                    THEN ModeCSR ELSE ModeSSR,
                text_length    |-> env.text_len,
                script_count   |-> env.script_len ] >>)

\* env: Raised when the request or the parser fails, else what the entry page holds.
check_rendering_mode(url, env) ==
    IF env = Raised
    THEN SchemaFrame(RenderingCols)
    ELSE DataFrame(RenderingCols,
           << [ url            |-> url,
                rendering_mode |->
                    IF env.text_len < TextLenThreshold /\ env.script_len > ScriptCountThreshold
                    THEN ModeCSR
                    ELSE IF env.noscript THEN ModeNoscript ELSE ModeSSR,
                text_length    |-> env.text_len,
                script_count   |-> env.script_len ] >>)

SchemaCheckCols == <<"url", "schema_present", "schema_types">>

\* env: Raised when the request fails, else the @type names found (env.types).
check_schema(url, env) ==
    IF env = Raised
    THEN SchemaFrame(SchemaCheckCols)
    ELSE DataFrame(SchemaCheckCols,
           << [ url            |-> url,
                schema_present |-> (env.types # {}),
                schema_types   |-> env.types ] >>)

NodeCols == <<"url", "in_degree", "out_degree", "pagerank">>
EdgeCols == <<"source", "target", "text", "nofollow">>

\* The internal-link analysis as main sees it.  env is Raised when the link
\* extraction raises or finds no internal edge, else the nodes and edges tables
\* computed from the crawl.  Every failure path returns (pl.DataFrame(), pl.DataFrame()).
report_internal_links(crawl_df, domain_regex, env) ==
    IF ~IsFrame(crawl_df) \/ is_empty(crawl_df) \/ env = Raised
    THEN <<EmptyFrame, EmptyFrame>>
    ELSE IF is_empty(env.edges)
         THEN <<EmptyFrame, EmptyFrame>>
         ELSE <<env.nodes, env.edges>>

-----------------------------------------------------------------------------
(* Insight rules (seo_insights_polars.py).  An insight keeps its red flags *)
(* and the counts its summary sentence is built from; `kind` tells which   *)
(* branch produced it.                                                     *)

Flag(id, n) == [flag |-> id, n |-> n]

Insight(kind, summary, red_flags) ==
    [kind |-> kind, summary |-> summary, red_flags |-> red_flags]

\* The flags whose condition holds, in the order the rule appends them.
Flags(candidates) ==
    LET on(c) == c.cond
        chosen == SelectSeq(candidates, on)
    IN  [i \in 1..Len(chosen) |-> chosen[i].flag]

When(cond, flag) == [cond |-> cond, flag |-> flag]

\* str.contains / the `in` test on strings
contains(text, sub) ==
    \E i \in 0..(Len(text) - Len(sub)) : SubSeq(text, i + 1, i + Len(sub)) = sub

Absent(df) == df = None \/ is_empty(df)

interpret_meta(meta_df) ==
    IF Absent(meta_df)
    THEN Insight("rule_nodata", [text |-> "No meta data available."],
                 << Flag("no_meta_data", 0) >>)
    ELSE LET total          == Len(meta_df.rows)
             missing_titles == count_if_present(meta_df, "title_missing")
             missing_desc   == count_if_present(meta_df, "description_missing")
         IN  Insight("rule",
                     [total |-> total, missing_titles |-> missing_titles,
                      missing_desc |-> missing_desc],
                     Flags(<< When(missing_titles > 0, Flag("missing_titles", missing_titles)),
                              When(missing_desc > 0, Flag("missing_descriptions", missing_desc)) >>))

interpret_headings(headings_df) ==
    IF Absent(headings_df)
    THEN Insight("rule_nodata", [text |-> "No heading data available."],
                 << Flag("no_heading_data", 0) >>)
    ELSE LET total       == Len(headings_df.rows)
             missing_h1  == count_if_present(headings_df, "missing_h1")
             multiple_h1 == count_if_present(headings_df, "multiple_h1")
         IN  Insight("rule",
                     [total |-> total, missing_h1 |-> missing_h1, multiple_h1 |-> multiple_h1],
                     Flags(<< When(missing_h1 > 0, Flag("missing_h1", missing_h1)),
                              When(multiple_h1 > 0, Flag("multiple_h1", multiple_h1)) >>))

interpret_canonicals(canon_df) ==
    IF Absent(canon_df)
    THEN Insight("rule_nodata", [text |-> "No canonical data available."],
                 << Flag("no_canonical_data", 0) >>)
    ELSE LET total     == Len(canon_df.rows)
             missing   == count_if_present(canon_df, "canonical_missing")
             self_refs == count_if_present(canon_df, "self_referencing")
         IN  Insight("rule",
                     [total |-> total, missing |-> missing, self_refs |-> self_refs],
                     Flags(<< When(missing > 0, Flag("missing_canonicals", missing)),
                              When(self_refs < total,
                                   Flag("not_self_referencing", total - self_refs)) >>))

\* The first character of str(c) for a non-negative integer c.
RECURSIVE first_digit(_)
first_digit(c) == IF c < 10 THEN c ELSE first_digit(c \div 10)

interpret_status(status_df) ==
    IF Absent(status_df)
    THEN Insight("rule_nodata", [text |-> "No status code data available."],
                 << Flag("no_status_codes", 0) >>)
    ELSE LET total  == Len(status_df.rows)
             has    == "status" \in Range(status_df.cols)
             code(row) == row.status
             starts(d) == has /\ \E r \in Range(status_df.rows) : first_digit(code(r)) = d
         IN  Insight("rule", [total |-> total],
                     Flags(<< When(starts(4), Flag("4xx_errors", 0)),
                              When(starts(5), Flag("5xx_errors", 0)) >>))

interpret_sitemap_vs_crawl(comp_df) ==
    IF Absent(comp_df)
    THEN Insight("rule_nodata", [text |-> "No sitemap vs crawl comparison available."],
                 << Flag("no_comparison_data", 0) >>)
    ELSE LET orphaned     == count_if_present(comp_df, "orphaned")
             uncatalogued == count_if_present(comp_df, "uncatalogued")
             total        == Len(comp_df.rows)
         IN  Insight("rule",
                     [total |-> total, orphaned |-> orphaned, uncatalogued |-> uncatalogued],
                     Flags(<< When(orphaned > 0, Flag("orphaned_pages", orphaned)),
                              When(uncatalogued > 0, Flag("uncatalogued_pages", uncatalogued)) >>))

int_sum(df, c) ==
    IF c \in Range(df.cols)
    THEN Sum([i \in 1..Len(df.rows) |-> df.rows[i][c]])
    ELSE 0

MaxAvgDepth == 5
MaxAvgUrlLength == 100

\* mean > k is compared as sum > k * total (total > 0 here).
interpret_url_structure(url_struct_df) ==
    IF Absent(url_struct_df)
    THEN Insight("rule_nodata", [text |-> "No URL structure data available."],
                 << Flag("no_url_structure_data", 0) >>)
    ELSE LET total      == Len(url_struct_df.rows)
             sum_depth  == int_sum(url_struct_df, "url_path_depth")
             sum_length == int_sum(url_struct_df, "url_length")
         IN  Insight("rule", [total |-> total, sum_depth |-> sum_depth, sum_length |-> sum_length],
                     Flags(<< When(sum_depth > MaxAvgDepth * total, Flag("high_url_depth", 0)),
                              When(sum_length > MaxAvgUrlLength * total,
                                   Flag("excessive_url_length", 0)) >>))

RECURSIVE MaxOf(_)
MaxOf(seq) ==
    IF Len(seq) = 1 THEN seq[1]
    ELSE LET m == MaxOf(Tail(seq)) IN IF seq[1] > m THEN seq[1] ELSE m

MaxChainLength == 2

\* interpret_redirects taking the chain length of the first row for the longest.
interpret_redirects_first_row(redirects_df) ==
    IF Absent(redirects_df)
    THEN Insight("rule_nodata", [text |-> "No redirects found "], <<>>)
    ELSE LET total_steps == Len(redirects_df.rows)
             longest_chain ==
                 IF "redirect_times" \in Range(redirects_df.cols)
                 THEN redirects_df.rows[1].redirect_times ELSE 0
         IN  Insight("rule", [total_steps |-> total_steps, longest_chain |-> longest_chain],
                     Flags(<< When(longest_chain # 0 /\ longest_chain > MaxChainLength,
                                   Flag("long_redirect_chain", longest_chain)) >>))

interpret_redirects(redirects_df) ==
    IF Absent(redirects_df)
    THEN Insight("rule_nodata", [text |-> "No redirects found "], <<>>)
    ELSE LET total_steps == Len(redirects_df.rows)
             times == [i \in 1..total_steps |-> redirects_df.rows[i].redirect_times]
             longest_chain ==
                 IF "redirect_times" \in Range(redirects_df.cols) THEN MaxOf(times) ELSE 0
         IN  Insight("rule", [total_steps |-> total_steps, longest_chain |-> longest_chain],
                     Flags(<< When(longest_chain # 0 /\ longest_chain > MaxChainLength,
                                   Flag("long_redirect_chain", longest_chain)) >>))

MinLinksPerPage == 2

Max2(a, b) == IF a > b THEN a ELSE b

\* The rule with the flag also raised at two links per page.
interpret_internal_links_at_most(nodes_df, edges_df) ==
    IF Absent(nodes_df)
    THEN Insight("rule_nodata", [text |-> "No internal link data available."],
                 << Flag("no_internal_link_data", 0) >>)
    ELSE LET total_pages == Len(nodes_df.rows)
             total_links == IF edges_df # None THEN Len(edges_df.rows) ELSE 0
         IN  Insight("rule", [total_pages |-> total_pages, total_links |-> total_links],
                     Flags(<< When(total_links <= MinLinksPerPage * Max2(total_pages, 1),
                                   Flag("poorly_connected", 0)) >>))

\* total_links / max(total_pages, 1) < 2, compared without division.
interpret_internal_links(nodes_df, edges_df) ==
    IF Absent(nodes_df)
    THEN Insight("rule_nodata", [text |-> "No internal link data available."],
                 << Flag("no_internal_link_data", 0) >>)
    ELSE LET total_pages == Len(nodes_df.rows)
             total_links == IF edges_df # None THEN Len(edges_df.rows) ELSE 0
         IN  Insight("rule", [total_pages |-> total_pages, total_links |-> total_links],
                     Flags(<< When(total_links < MinLinksPerPage * Max2(total_pages, 1),
                                   Flag("poorly_connected", 0)) >>))

UserAgentText == <<"u","s","e","r","-","a","g","e","n","t">>
SitemapText   == <<"s","i","t","e","m","a","p">>

interpret_robots(df) ==
    IF Absent(df)
    THEN Insight("rule_nodata", [text |-> "No robots.txt data collected."],
                 << Flag("no_robots_txt", 0) >>)
    ELSE LET directives ==
                 IF "directive" \in Range(df.cols)
                 THEN { lower(strip(r.directive)) : r \in { x \in Range(df.rows) : x.directive # Null } }
                 ELSE {}
         IN  Insight("rule", [total |-> Len(df.rows)],
                     Flags(<< When(~\E d \in directives : contains(d, UserAgentText),
                                   Flag("no_user_agent", 0)),
                              When(~\E d \in directives : contains(d, SitemapText),
                                   Flag("no_sitemap_reference", 0)) >>))

BrandText == <<"w","e","l","z","i","n">>
NoiseChars == {"|", "&"}
LegalTerms ==
    { <<"p","o","l","i","c","y">>, <<"t","e","r","m","s">>,
      <<"c","o","n","d","i","t","i","o","n","s">>, <<"p","r","i","v","a","c","y">> }

\* The ratio tests sum/max(total,1) > 0.1 and > 0.3 are compared in tenths.
NoisePerTen == 1
BrandPerTen == 3

interpret_ngrams(ngram_df, n) ==
    IF Absent(ngram_df)
    THEN Insight("rule_nodata", [text |-> "No n-gram data available.", n |-> n], <<>>)
    ELSE IF Len(ngram_df.cols) < 2
    THEN Raised
    ELSE LET c1 == ngram_df.cols[1]
             c2 == ngram_df.cols[2]
             renamed == [i \in 1..Len(ngram_df.rows) |->
                           [ngram |-> lower(strip(ngram_df.rows[i][c1])),
                            count |-> ngram_df.rows[i][c2]]]
             rule(rows) ==
         LET total_unique == Len(rows)
             counts(sel(_)) == Sum([i \in 1..Len(rows) |-> IF sel(rows[i]) THEN rows[i].count ELSE 0])
             all(r) == TRUE
             is_noisy(r) == \E k \in 1..Len(r.ngram) : r.ngram[k] \in NoiseChars
             is_branded(r) == contains(r.ngram, BrandText)
             total_occurrences == counts(all)
             denom == Max2(total_occurrences, 1)
         IN  Insight("rule",
                     [total_unique |-> total_unique, total_occurrences |-> total_occurrences, n |-> n],
                     Flags(<< When((\E i \in 1..Len(rows) : is_noisy(rows[i]))
                                     /\ 10 * counts(is_noisy) > NoisePerTen * denom,
                                   Flag("symbols_dominate", 0)),
                              When((\E i \in 1..Len(rows) : is_branded(rows[i]))
                                     /\ 10 * counts(is_branded) > BrandPerTen * denom,
                                   Flag("brand_dominates", 0)),
                              When(\E i \in 1..Len(rows) : rows[i].ngram \in LegalTerms,
                                   Flag("legal_boilerplate", 0)) >>))
         IN  Let(renamed, rule)

ClientSideText == <<"c","l","i","e","n","t","-","s","i","d","e">>

interpret_rendering_mode(df) ==
    IF Absent(df)
    THEN Insight("rule_nodata", [text |-> "No rendering mode information was collected."], <<>>)
    ELSE LET first_row == df.rows[1]
             rule(mode) ==
                 Insight("rule", [mode |-> mode],
                         Flags(<< When(contains(lower(mode), ClientSideText),
                                       Flag("client_side_rendered", 0)) >>))
         IN  Let(strip(Get(first_row, "rendering_mode")), rule)

interpret_schema(df) ==
    IF Absent(df)
    THEN Insight("rule_nodata", [text |-> "No schema.org data was collected."], <<>>)
    ELSE LET first_row == df.rows[1]
             present == first_row.schema_present = TRUE
         IN  IF ~present
             THEN Insight("rule", [present |-> FALSE], << Flag("no_schema", 0) >>)
             ELSE Insight("rule", [present |-> TRUE], <<>>)

-----------------------------------------------------------------------------
(* save_insight_report: the insight engine and the report assembler        *)

SectionNames ==
    << "Rendering_Mode", "Robots", "Meta", "Headings", "Schema_Check", "Canonicals",
       "Status", "Sitemap_vs_Crawl", "URL_Structure", "Redirects", "Internal_Links",
       "Ngrams_1", "Ngrams_2", "Ngrams_3" >>

\* The table each section interprets, by the name main holds it under.
SectionTable ==
    [ Rendering_Mode |-> "rendering_df", Robots |-> "robots_df", Meta |-> "meta_df",
      Headings |-> "headings_df", Schema_Check |-> "schema_df", Canonicals |-> "canon_df",
      Status |-> "status_df", Sitemap_vs_Crawl |-> "comp_df", URL_Structure |-> "url_struct_df",
      Redirects |-> "redirects_df", Internal_Links |-> "nodes_df", Ngrams_1 |-> "ngram_1_df",
      Ngrams_2 |-> "ngram_2_df", Ngrams_3 |-> "ngram_3_df" ]

\* func(df, *args) for the rule function the section is given.
interpret(name, df, extra) ==
    CASE name = "Rendering_Mode"   -> interpret_rendering_mode(df)
      [] name = "Robots"           -> interpret_robots(df)
      [] name = "Meta"             -> interpret_meta(df)
      [] name = "Headings"         -> interpret_headings(df)
      [] name = "Schema_Check"     -> interpret_schema(df)
      [] name = "Canonicals"       -> interpret_canonicals(df)
      [] name = "Status"           -> interpret_status(df)
      [] name = "Sitemap_vs_Crawl" -> interpret_sitemap_vs_crawl(df)
      [] name = "URL_Structure"    -> interpret_url_structure(df)
      [] name = "Redirects"        -> interpret_redirects(df)
      [] name = "Internal_Links"   -> interpret_internal_links(df, extra)
      [] name = "Ngrams_1"         -> interpret_ngrams(df, 1)
      [] name = "Ngrams_2"         -> interpret_ngrams(df, 2)
      [] name = "Ngrams_3"         -> interpret_ngrams(df, 3)

PreviewRows == 5

NoPreview == [preview |-> FALSE]

df_preview_of(df) ==
    IF df # None /\ ~is_empty(df)
    THEN [preview |-> TRUE,
          rows |-> SubSeq(df.rows, 1, IF Len(df.rows) < PreviewRows THEN Len(df.rows) ELSE PreviewRows)]
    ELSE NoPreview

NoDataInsight(name) == Insight("nodata", [text |-> "No data was collected", name |-> name], <<>>)

FailedInsight(name) ==
    Insight("failed", [text |-> "insights could not be generated", name |-> name], <<>>)

Section(name, insight, df) == [name |-> name, insight |-> insight, df_preview |-> df_preview_of(df)]

\* _add_section without the emptiness test: the rule function is always called.
add_section_no_empty_check(name, df, extra, rule_raises) ==
    LET appended(r) == Section(name, IF r = Raised THEN FailedInsight(name) ELSE r, df)
    IN  Let(IF rule_raises THEN Raised ELSE interpret(name, df, extra), appended)

\* _add_section without the try/except: an exception of the rule leaves it.
add_section_unguarded(name, df, extra, rule_raises) ==
    IF Absent(df)
    THEN Section(name, NoDataInsight(name), df)
    ELSE LET appended(r) == IF r = Raised THEN Raised ELSE Section(name, r, df)
         IN  Let(IF rule_raises THEN Raised ELSE interpret(name, df, extra), appended)

\* _add_section whose except branch reports the failure as a red flag.
add_section_flags_failure(name, df, extra, rule_raises) ==
    IF Absent(df)
    THEN Section(name, NoDataInsight(name), df)
    ELSE LET flagged == Insight("failed", [text |-> "insights could not be generated",
                                          name |-> name], <<Flag("failed", 1)>>)
             appended(r) == Section(name, IF r = Raised THEN flagged ELSE r, df)
         IN  Let(IF rule_raises THEN Raised ELSE interpret(name, df, extra), appended)

\* _add_section(name, func, df, *args).  rule_raises: whether func raises on this
\* table for a reason outside the model (a library error); the section appended.
add_section(name, df, extra, rule_raises) ==
    IF Absent(df)
    THEN Section(name, NoDataInsight(name), df)
    ELSE LET appended(r) == Section(name, IF r = Raised THEN FailedInsight(name) ELSE r, df)
         IN  Let(IF rule_raises THEN Raised ELSE interpret(name, df, extra), appended)

\* The 14 calls with the sections of empty or absent tables skipped.
build_sections_skip_empty(frames, raising) ==
    SelectSeq([k \in 1..Len(SectionNames) |->
                  add_section(SectionNames[k], frames[SectionTable[SectionNames[k]]],
                              frames["edges_df"], SectionNames[k] \in raising)],
              LAMBDA sec : sec = Raised \/ sec.insight.kind # "nodata")

\* The 14 _add_section calls, in order: what each of them appended (Raised for
\* a call that an exception left).
build_sections(frames, raising) ==
    [k \in 1..Len(SectionNames) |->
        add_section(SectionNames[k], frames[SectionTable[SectionNames[k]]],
                    frames["edges_df"], SectionNames[k] \in raising)]

\* html_content: a heading per section, then its red flags and its preview.
html_content_of(secs) ==
    [k \in 1..Len(secs) |->
        [heading |-> secs[k].name, red_flags |-> secs[k].insight.red_flags,
         has_preview |-> secs[k].df_preview.preview]]

-----------------------------------------------------------------------------
(* Specification SpecMain: one run of main(customer_name, url)             *)

EntryUrl == RootUrl

HostRegex == <<"a","\\",".","c","o","m">>

ScenarioAPages ==
    DataFrame(CrawlCols,
        << [url |-> RootUrl, title |-> <<>>, meta_desc |-> Null, h1 |-> Null,
            canonical |-> Null, status |-> 200] >>)

\* A crawl output without the title, meta_desc, h1 and canonical fields.
MalformedPages ==
    DataFrame(<<"url", "status">>, << [url |-> PageP, status |-> 404] >>)

CrawlEnvs ==
    { [reachable |-> FALSE, crawl_raises |-> FALSE, file_exists |-> FALSE, data |-> SchemaFrame(CrawlCols)],
      [reachable |-> TRUE, crawl_raises |-> TRUE, file_exists |-> FALSE, data |-> SchemaFrame(CrawlCols)],
      [reachable |-> TRUE, crawl_raises |-> FALSE, file_exists |-> FALSE, data |-> SchemaFrame(CrawlCols)],
      [reachable |-> TRUE, crawl_raises |-> FALSE, file_exists |-> TRUE, data |-> EmptyFrame],
      [reachable |-> TRUE, crawl_raises |-> FALSE, file_exists |-> TRUE, data |-> ScenarioAPages],
      [reachable |-> TRUE, crawl_raises |-> FALSE, file_exists |-> TRUE, data |-> MalformedPages] }

RobotsTable ==
    DataFrame(RobotsCols,
        << [directive |-> <<"U","s","e","r","-","a","g","e","n","t">>, content |-> <<"*">>],
           [directive |-> <<"S","i","t","e","m","a","p">>, content |-> SitemapFileA] >>)

RobotsEnvs == { Raised, SchemaFrame(RobotsCols), RobotsTable }

SitemapTableA ==
    DataFrame(SitemapSchema, << [loc |-> RootUrl, lastmod |-> LastmodA, sitemap |-> SitemapFileA] >>)

\* <<outcome for the sitemaps of robots.txt, outcomes for the fallback paths>>
SitemapEnvs ==
    { << Raised, << Raised, SchemaFrame(SitemapSchema) >> >>,
      << SitemapTableA, << >> >>,
      << Raised, << Raised, SitemapTableA >> >> }

SchemaEnvs == { Raised, [types |-> {"Organization"}] }

RenderingEnvs ==
    { Raised, [text_len |-> 150, script_len |-> 25, noscript |-> FALSE] }

url_to_df(crawl_df) ==
    DataFrame(UrlStructCols,
        [i \in 1..Len(crawl_df.rows) |->
            [url |-> crawl_df.rows[i].url, scheme |-> "http", netloc |-> "a", path |-> "/"]])

RedirectTable ==
    DataFrame(RedirectCols, << [url |-> PageP, redirect_url |-> PageQ, redirect_times |-> 1] >>)

RedirectEnvs == { Raised, SchemaFrame(RedirectCols), RedirectTable }

\* a -> b and b -> a, with the scores networkx gave (in thousandths).
LinkGraphAB ==
    [ nodes |-> DataFrame(NodeCols,
          << [url |-> PageP, in_degree |-> 1, out_degree |-> 1, pagerank |-> 500],
             [url |-> PageQ, in_degree |-> 1, out_degree |-> 1, pagerank |-> 500] >>),
      edges |-> DataFrame(EdgeCols,
          << [source |-> PageP, target |-> PageQ, text |-> <<"q">>, nofollow |-> FALSE],
             [source |-> PageQ, target |-> PageP, text |-> <<"p">>, nofollow |-> FALSE] >>) ]

LinkEnvs == { Raised, LinkGraphAB }

NgramTable(n) ==
    DataFrame(NgramCols, << [word |-> <<"s","e","o">>, abs_freq |-> n] >>)

\* What word_frequency does when the crawl has text: it is taken to fail for
\* single words only.
NgramEnvs(n) == IF n = 1 THEN { Raised, NgramTable(n) } ELSE { NgramTable(n) }

TableNames ==
    { "robots_df", "schema_df", "meta_df", "headings_df", "canon_df", "status_df", "comp_df",
      "overview_df", "url_struct_df", "redirects_df", "rendering_df", "nodes_df", "edges_df",
      "ngram_1_df", "ngram_2_df", "ngram_3_df" }

InitMain ==
    /\ QueueIdle
    /\ u_in = <<Null, Null>>
    /\ u_norm = <<Null, Null>>
    /\ comp_runs = <<>>
    /\ pc = "crawl"
    /\ crawldf = Unset
    /\ sitemap_df = Unset
    /\ crawl_result = Unset
    /\ dfs = [n \in TableNames |-> Unset]
    /\ csv_files = {}
    /\ sections = <<>>
    /\ html_file = NoFile
    /\ pdf_file = NoFile
    /\ FnIdle

\* name = safe_run(...) at one statement of main: an exception leaving the
\* wrapper ends main, otherwise the result is assigned and main goes on.
Assign(name, r, next) ==
    IF r = Raised
    THEN pc' = "aborted" /\ UNCHANGED dfs
    ELSE pc' = next /\ dfs' = [dfs EXCEPT ![name] = r]

\* In the actions below a call's result is bound once, as \E r \in { call },
\* and then used: the value of the call, computed a single time.

Crawl ==
    /\ pc = "crawl"
    /\ \E env \in CrawlEnvs : \E c \in { crawl_site(env) } : \E r \in { safe_run(c, CrawlCols) } :
         /\ crawl_result' = c
         /\ IF r = Raised
            THEN pc' = "aborted" /\ UNCHANGED <<queueVars, crawldf, csv_files>>
            ELSE /\ pc' = "robots"
                 /\ crawldf' = r
                 /\ csv_files' = IF IsFrame(r) THEN {"seo"} ELSE {}
    /\ UNCHANGED <<queueVars, normVars, fnVars, comp_runs, sitemap_df, dfs, sections, html_file, pdf_file>>

Robots ==
    /\ pc = "robots"
    /\ \E env \in RobotsEnvs : \E r \in { safe_run(analyze_robots_txt(env), RobotsCols) } :
         Assign("robots_df", r, "sitemap")
    /\ UNCHANGED <<queueVars, normVars, fnVars, comp_runs, crawldf, sitemap_df, crawl_result, csv_files, sections,
                   html_file, pdf_file>>

Sitemap ==
    /\ pc = "sitemap"
    /\ \E env \in SitemapEnvs : \E kept \in sitemap_kept_choices(env[1], env[2]) :
         \E r \in { safe_run(get_sitemap_df(env[1], env[2], kept), SitemapSchema) } :
            IF r = Raised
            THEN pc' = "aborted" /\ UNCHANGED sitemap_df
            ELSE pc' = "schema" /\ sitemap_df' = r
    /\ UNCHANGED <<queueVars, normVars, fnVars, comp_runs, crawldf, crawl_result, dfs, csv_files, sections,
                   html_file, pdf_file>>

SchemaCheck ==
    /\ pc = "schema"
    /\ \E env \in SchemaEnvs : \E r \in { safe_run(check_schema(EntryUrl, env), SchemaCheckCols) } :
         Assign("schema_df", r, "meta")
    /\ UNCHANGED <<queueVars, normVars, fnVars, comp_runs, crawldf, sitemap_df, crawl_result, csv_files, sections,
                   html_file, pdf_file>>

MetaReport ==
    /\ pc = "meta"
    /\ \E r \in { safe_run(report_meta(crawldf), MetaCols) } :
         Assign("meta_df", r, "headings")
    /\ UNCHANGED <<queueVars, normVars, fnVars, comp_runs, crawldf, sitemap_df, crawl_result, csv_files, sections,
                   html_file, pdf_file>>

HeadingsReport ==
    /\ pc = "headings"
    /\ \E expr_ok \in BOOLEAN :
         \E r \in { safe_run(report_headings(crawldf, expr_ok), HeadingsCols) } :
            Assign("headings_df", r, "canonicals")
    /\ UNCHANGED <<queueVars, normVars, fnVars, comp_runs, crawldf, sitemap_df, crawl_result, csv_files, sections,
                   html_file, pdf_file>>

CanonicalsReport ==
    /\ pc = "canonicals"
    /\ \E r \in { safe_run(report_canonicals(crawldf), CanonCols) } :
         Assign("canon_df", r, "status")
    /\ UNCHANGED <<queueVars, normVars, fnVars, comp_runs, crawldf, sitemap_df, crawl_result, csv_files, sections,
                   html_file, pdf_file>>

StatusReport ==
    /\ pc = "status"
    /\ \E r \in { safe_run(report_status_codes(crawldf), StatusCols) } :
         Assign("status_df", r, "comp")
    /\ UNCHANGED <<queueVars, normVars, fnVars, comp_runs, crawldf, sitemap_df, crawl_result, csv_files, sections,
                   html_file, pdf_file>>

CompExpectedCols == <<"url", "in_crawl", "in_sitemap">>

SitemapVsCrawl ==
    /\ pc = "comp"
    /\ \E order \in IterationOrders(IF IsFrame(crawldf) /\ has_cols(crawldf, <<"url">>)
                                    THEN all_urls(sitemap_df, crawldf) ELSE {}) :
         \E c \in { report_sitemap_vs_crawl_call(sitemap_df, crawldf, order) } :
            \E r \in { safe_run(c, CompExpectedCols) } :
               Assign("comp_df", r, "overview")
    /\ UNCHANGED <<queueVars, normVars, fnVars, comp_runs, crawldf, sitemap_df, crawl_result, csv_files, sections,
                   html_file, pdf_file>>

Overview ==
    /\ pc = "overview"
    /\ \E c \in { build_overview(crawldf, dfs["meta_df"], dfs["headings_df"], dfs["canon_df"],
                                sitemap_df, dfs["comp_df"]) } :
         \E r \in { safe_run(c, <<"total_crawled">>) } :
            Assign("overview_df", r, "url_structure")
    /\ UNCHANGED <<queueVars, normVars, fnVars, comp_runs, crawldf, sitemap_df, crawl_result, csv_files, sections,
                   html_file, pdf_file>>

\* advertools' url_to_df raises when there is no url column to split.
UrlStructure ==
    /\ pc = "url_structure"
    /\ \E env \in { IF ~IsFrame(crawldf) \/ ~has_cols(crawldf, <<"url">>)
                     THEN Raised ELSE url_to_df(crawldf) } :
         \E r \in { safe_run(report_url_structure(crawldf, env), <<"url">>) } :
            Assign("url_struct_df", r, "redirects")
    /\ UNCHANGED <<queueVars, normVars, fnVars, comp_runs, crawldf, sitemap_df, crawl_result, csv_files, sections,
                   html_file, pdf_file>>

RedirectExpectedCols == <<"url", "redirect_url">>

\* crawlytics.redirects has redirects to list only when the crawl has rows.
Redirects ==
    /\ pc = "redirects"
    /\ \E env \in RedirectEnvs :
         \E c \in { report_redirects(crawldf, IF IsFrame(crawldf) /\ ~is_empty(crawldf)
                                              THEN env ELSE Raised) } :
            \E r \in { safe_run(c, RedirectExpectedCols) } :
               Assign("redirects_df", r, "rendering")
    /\ UNCHANGED <<queueVars, normVars, fnVars, comp_runs, crawldf, sitemap_df, crawl_result, csv_files, sections,
                   html_file, pdf_file>>

RenderingMode ==
    /\ pc = "rendering"
    /\ \E env \in RenderingEnvs :
         \E r \in { safe_run(check_rendering_mode(EntryUrl, env), RenderingCols) } :
            Assign("rendering_df", r, "internal_links")
    /\ UNCHANGED <<queueVars, normVars, fnVars, comp_runs, crawldf, sitemap_df, crawl_result, csv_files, sections,
                   html_file, pdf_file>>

\* nodes_df, edges_df = report_internal_links(...): called without safe_run.
InternalLinks ==
    /\ pc = "internal_links"
    /\ \E env \in LinkEnvs : \E r \in { report_internal_links(crawldf, HostRegex, env) } :
         /\ dfs' = [dfs EXCEPT !["nodes_df"] = r[1], !["edges_df"] = r[2]]
         /\ pc' = "ngrams_1"
    /\ UNCHANGED <<queueVars, normVars, fnVars, comp_runs, crawldf, sitemap_df, crawl_result, csv_files, sections,
                   html_file, pdf_file>>

\* report_ngrams on the crawl table: word_frequency has text to count only
\* when the crawl has rows.
ngrams_of(env) ==
    safe_run(report_ngrams(crawldf, IF IsFrame(crawldf) /\ ~is_empty(crawldf) THEN env ELSE Raised),
             NgramCols)

Ngrams1 ==
    /\ pc = "ngrams_1"
    /\ \E env \in NgramEnvs(1) : \E r \in { ngrams_of(env) } : Assign("ngram_1_df", r, "ngrams_2")
    /\ UNCHANGED <<queueVars, normVars, fnVars, comp_runs, crawldf, sitemap_df, crawl_result, csv_files, sections,
                   html_file, pdf_file>>

Ngrams2 ==
    /\ pc = "ngrams_2"
    /\ \E env \in NgramEnvs(2) : \E r \in { ngrams_of(env) } : Assign("ngram_2_df", r, "ngrams_3")
    /\ UNCHANGED <<queueVars, normVars, fnVars, comp_runs, crawldf, sitemap_df, crawl_result, csv_files, sections,
                   html_file, pdf_file>>

Ngrams3 ==
    /\ pc = "ngrams_3"
    /\ \E env \in NgramEnvs(3) : \E r \in { ngrams_of(env) } : Assign("ngram_3_df", r, "save_csv")
    /\ UNCHANGED <<queueVars, normVars, fnVars, comp_runs, crawldf, sitemap_df, crawl_result, csv_files, sections,
                   html_file, pdf_file>>

\* The tables main writes to CSV files, in the order of its write statements.
CsvOrder ==
    << "overview_df", "meta_df", "headings_df", "canon_df", "status_df", "sitemap_df",
       "comp_df", "url_struct_df", "redirects_df", "nodes_df", "edges_df",
       "ngram_1_df", "ngram_2_df", "ngram_3_df", "rendering_df", "schema_df" >>

CsvTables == Range(CsvOrder)

\* The table main holds under a name.
TableOf(n) == IF n = "sitemap_df" THEN sitemap_df ELSE dfs[n]

\* "if not df.is_empty(): df.write_csv(...)": the statement writes a file.
HasRows(n) == IF IsFrame(TableOf(n)) THEN ~is_empty(TableOf(n)) ELSE FALSE

\* The tables whose write_csv is taken to be able to raise (disk, permissions).
FailingWrites == { "meta_df" }

\* The files written by the one try block of 16 statements when write_csv of
\* `failing` raises ("none": no write raises): the except clause is reached at
\* the first exception, and the statements after it are not run.
csv_written(failing) ==
    IF failing \in CsvTables /\ HasRows(failing)
    THEN LET k == CHOOSE i \in 1..Len(CsvOrder) : CsvOrder[i] = failing
         IN  { CsvOrder[i] : i \in { j \in 1..(k - 1) : HasRows(CsvOrder[j]) } }
    ELSE { n \in CsvTables : HasRows(n) }

SaveCsv ==
    /\ pc = "save_csv"
    /\ \E failing \in FailingWrites \cup {"none"} :
         csv_files' = csv_files \cup csv_written(failing)
    /\ pc' = "report"
    /\ UNCHANGED <<queueVars, normVars, fnVars, comp_runs, crawldf, sitemap_df, crawl_result, dfs, sections,
                   html_file, pdf_file>>

\* The rule functions taken to raise on a table for a reason outside the model
\* (a dtype polars rejects, a column a library left out).
FallibleRules == { "Meta", "Internal_Links", "Ngrams_2" }

\* A rule function can raise only where it is called.
CalledRules == { n \in Range(SectionNames) : ~Absent(dfs[SectionTable[n]]) }

\* save_insight_report, first part: the 14 sections.
BuildSections ==
    /\ pc = "report"
    /\ \E raising \in SUBSET (FallibleRules \cap CalledRules) :
         \E secs \in { build_sections(dfs, raising) } :
            IF \E k \in DOMAIN secs : secs[k] = Raised
            THEN pc' = "aborted" /\ UNCHANGED sections
            ELSE pc' = "write_html" /\ sections' = secs
    /\ UNCHANGED <<queueVars, normVars, fnVars, comp_runs, crawldf, sitemap_df, crawl_result, dfs, csv_files,
                   html_file, pdf_file>>

\* save_insight_report, second part: the HTML file; a failed write is logged
\* and the function returns.
WriteHtml ==
    /\ pc = "write_html"
    /\ \E html_ok \in BOOLEAN :
         IF html_ok
         THEN html_file' = File(html_content_of(sections)) /\ pc' = "write_pdf"
         ELSE html_file' = NoFile /\ pc' = "done"
    /\ UNCHANGED <<queueVars, normVars, fnVars, comp_runs, crawldf, sitemap_df, crawl_result, dfs, csv_files,
                   sections, pdf_file>>

\* save_insight_report, last part: the PDF; a failure is logged only.
WritePdf ==
    /\ pc = "write_pdf"
    /\ \E pdf_ok \in BOOLEAN :
         pdf_file' = IF pdf_ok THEN html_file ELSE NoFile
    /\ pc' = "done"
    /\ UNCHANGED <<queueVars, normVars, fnVars, comp_runs, crawldf, sitemap_df, crawl_result, dfs, csv_files,
                   sections, html_file>>

NextMain ==
    \/ Crawl \/ Robots \/ Sitemap \/ SchemaCheck
    \/ MetaReport \/ HeadingsReport \/ CanonicalsReport \/ StatusReport
    \/ SitemapVsCrawl \/ Overview \/ UrlStructure \/ Redirects \/ RenderingMode
    \/ InternalLinks \/ Ngrams1 \/ Ngrams2 \/ Ngrams3
    \/ SaveCsv \/ BuildSections \/ WriteHtml \/ WritePdf

SpecMain == InitMain /\ [][NextMain]_vars

\* main is one sequential thread: it takes its next statement while it has one.
SpecMainFair == SpecMain /\ WF_vars(NextMain)

\* expected_cols as main passes them to safe_run, table by table; for the two
\* internal-link tables, the columns main itself falls back to.
ExpectedSchema ==
    [ robots_df |-> RobotsCols, schema_df |-> SchemaCheckCols, meta_df |-> MetaCols,
      headings_df |-> HeadingsCols, canon_df |-> CanonCols, status_df |-> StatusCols,
      comp_df |-> CompExpectedCols, overview_df |-> <<"total_crawled">>,
      url_struct_df |-> <<"url">>, redirects_df |-> RedirectExpectedCols,
      rendering_df |-> RenderingCols, nodes_df |-> <<"url">>,
      edges_df |-> <<"source", "target">>, ngram_1_df |-> NgramCols,
      ngram_2_df |-> NgramCols, ngram_3_df |-> NgramCols ]

-----------------------------------------------------------------------------
(* Specification SpecSection: one call of _add_section on one table        *)

\* A table with rows for each section, as the reporters of this module give it.
SampleTable ==
    [ Rendering_Mode   |-> check_rendering_mode(EntryUrl, [text_len |-> 150, script_len |-> 25, noscript |-> FALSE]),
      Robots           |-> RobotsTable,
      Meta             |-> report_meta(ScenarioAPages),
      Headings         |-> report_headings(ScenarioAPages, TRUE),
      Schema_Check     |-> check_schema(EntryUrl, [types |-> {}]),
      Canonicals       |-> report_canonicals(ScenarioAPages),
      Status           |-> report_status_codes(MalformedPages),
      Sitemap_vs_Crawl |-> report_sitemap_vs_crawl(SitemapTableA, MalformedPages, <<PageP, normalize_url(RootUrl)>>),
      URL_Structure    |-> url_to_df(ScenarioAPages),
      Redirects        |-> RedirectTable,
      Internal_Links   |-> LinkGraphAB.nodes,
      Ngrams_1         |-> NgramTable(1),
      Ngrams_2         |-> NgramTable(2),
      Ngrams_3         |-> NgramTable(3) ]

\* The tables a section may be handed: absent, without columns, with the
\* expected columns and no rows, or with rows.
SectionInputs(name) ==
    { None, EmptyFrame, SchemaFrame(ExpectedSchema[SectionTable[name]]), SampleTable[name] }

\* The second table, which only interpret_internal_links takes.
ExtraInputs(name) ==
    IF name = "Internal_Links" THEN { None, EmptyFrame, LinkGraphAB.edges } ELSE { Unset }

InitSection ==
    /\ QueueIdle
    /\ u_in = <<Null, Null>>
    /\ u_norm = <<Null, Null>>
    /\ comp_runs = <<>>
    /\ crawldf = Unset
    /\ sitemap_df = Unset
    /\ crawl_result = Unset
    /\ csv_files = {}
    /\ html_file = NoFile
    /\ pdf_file = NoFile
    /\ FnIdle
    /\ sections = <<>>
    /\ pc = "add_section"
    /\ \E name \in Range(SectionNames) :
         \E df \in SectionInputs(name), extra \in ExtraInputs(name) :
            dfs = [n \in TableNames |->
                     IF n = SectionTable[name] THEN df
                     ELSE IF n = "edges_df" THEN extra ELSE Unset]

\* The section the call is for: the one whose table is set.
section_called == CHOOSE name \in Range(SectionNames) : dfs[SectionTable[name]] # Unset

AddSection ==
    /\ pc = "add_section"
    /\ \E rule_raises \in BOOLEAN :
         \E sec \in { add_section(section_called, dfs[SectionTable[section_called]],
                                  dfs["edges_df"], rule_raises) } :
            IF sec = Raised
            THEN pc' = "aborted" /\ UNCHANGED sections
            ELSE pc' = "section_added" /\ sections' = Append(sections, sec)
    /\ UNCHANGED <<queueVars, normVars, fnVars, comp_runs, crawldf, sitemap_df, crawl_result, dfs, csv_files,
                   html_file, pdf_file>>

NextSection == AddSection

SpecSection == InitSection /\ [][NextSection]_vars

-----------------------------------------------------------------------------
(* Specification SpecAudit: one POST /seo-audit request of api/index.py    *)

\* The issues the checks of SimpleSeOAuditor can append, in the order run_audit
\* runs the checks (each of the title, description and H1 checks appends at
\* most one issue).
IssueOrder ==
    << "title", "meta_description", "h1", "images_missing_alt", "images_empty_alt",
       "inline_css", "css_files", "js_files" >>

ScorePerIssue == 15
FullScore == 100

\* fetch_page: the page, or None with the issue "Failed to fetch page" appended.
fetch_page(env) ==
    IF env.fetch_ok
    THEN [soup |-> TRUE, issues |-> <<>>]
    ELSE [soup |-> FALSE, issues |-> <<"fetch_failed">>]

\* run_audit: None when the page was not fetched or a check raised, otherwise
\* the results with the list of issues the checks appended.
run_audit(env) ==
    LET fetched == fetch_page(env)
    IN  IF ~fetched.soup
        THEN [issues |-> fetched.issues, results |-> None]
        ELSE LET issues == SelectSeq(IssueOrder, LAMBDA i : i \in env.found)
             IN  IF env.audit_raises
                 THEN [issues |-> issues, results |-> None]
                 ELSE [issues |-> issues, results |-> [issues |-> issues]]

\* generate_html_report: the "Audit Failed" page without results, otherwise the
\* report page with its score.
generate_html_report(results) ==
    IF results = None
    THEN [page |-> "audit_failed"]
    ELSE [page |-> "report",
          score |-> Max2(0, FullScore - Len(results.issues) * ScorePerIssue)]

\* The score without the lower limit of 0.
score_of_unclamped(results) ==
    IF results # None
    THEN [score |-> FullScore - Len(results.issues) * ScorePerIssue,
          issues_count |-> Len(results.issues)]
    ELSE [score |-> 0, issues_count |-> 0]

\* "Calculate score safely" of the handler.
score_of(results) ==
    IF results # None
    THEN [score |-> Max2(0, FullScore - Len(results.issues) * ScorePerIssue),
          issues_count |-> Len(results.issues)]
    ELSE [score |-> 0, issues_count |-> 0]

AuditRequests ==
    [email_ok : BOOLEAN, fetch_ok : BOOLEAN, audit_raises : BOOLEAN,
     found : SUBSET Range(IssueOrder)]

InitAudit ==
    /\ QueueIdle
    /\ u_in = <<Null, Null>>
    /\ u_norm = <<Null, Null>>
    /\ crawldf = Unset
    /\ sitemap_df = Unset
    /\ comp_runs = <<>>
    /\ crawl_result = Unset
    /\ dfs = <<>>
    /\ csv_files = {}
    /\ sections = <<>>
    /\ html_file = NoFile
    /\ pdf_file = NoFile
    /\ pc = "request"
    /\ call \in AuditRequests
    /\ ret = Unset

\* The email check: a request without a valid email is answered 400.
AuditValidate ==
    /\ pc = "request"
    /\ IF call.email_ok
       THEN pc' = "run_audit" /\ UNCHANGED ret
       ELSE pc' = "responded" /\ ret' = [response |-> [status |-> 400]]
    /\ UNCHANGED <<queueVars, normVars, comp_runs, crawldf, sitemap_df, crawl_result, dfs, csv_files,
                   sections, html_file, pdf_file, call>>

\* results = auditor.run_audit()
AuditRun ==
    /\ pc = "run_audit"
    /\ ret' = run_audit(call)
    /\ pc' = "respond"
    /\ UNCHANGED <<queueVars, normVars, comp_runs, crawldf, sitemap_df, crawl_result, dfs, csv_files,
                   sections, html_file, pdf_file, call>>

\* The report page, the score and the JSON response.
AuditRespond ==
    /\ pc = "respond"
    /\ \E sc \in { score_of(ret.results) } :
         ret' = [issues |-> ret.issues, results |-> ret.results,
                 response |-> [status |-> 200, score |-> sc.score,
                               issues_count |-> sc.issues_count,
                               html |-> generate_html_report(ret.results)]]
    /\ pc' = "responded"
    /\ UNCHANGED <<queueVars, normVars, comp_runs, crawldf, sitemap_df, crawl_result, dfs, csv_files,
                   sections, html_file, pdf_file, call>>

NextAudit == AuditValidate \/ AuditRun \/ AuditRespond

SpecAudit == InitAudit /\ [][NextAudit]_vars

-----------------------------------------------------------------------------
(* The link graph of report_internal_links                                 *)

\* resolve_url: redirect_map is followed from cur until a URL that is no key of
\* the map, or a URL already in seen, is reached.
RECURSIVE resolve_from(_, _, _)
resolve_from(cur, seen, redirect_map) ==
    IF cur \in DOMAIN redirect_map /\ cur \notin seen
    THEN resolve_from(redirect_map[cur], seen \cup {cur}, redirect_map)
    ELSE cur

\* The resolution that follows one redirect only.
resolve_url_one_hop(u, redirect_map) ==
    IF u = Null THEN u
    ELSE IF u \in DOMAIN redirect_map THEN redirect_map[u] ELSE u

resolve_url(u, redirect_map) ==
    IF u = Null THEN u ELSE resolve_from(u, {}, redirect_map)

\* internal_links without the filter on the resolved target.
resolved_links_unfiltered(links, redirect_map, domain_regex) ==
    LET internal == SelectSeq(links, LAMBDA r : r.internal)
    IN  [i \in 1..Len(internal) |->
            [source_resolved |-> resolve_url(internal[i].url, redirect_map),
             target_resolved |-> resolve_url(internal[i].link, redirect_map),
             text |-> internal[i].text, nofollow |-> internal[i].nofollow]]

\* internal_links: the rows marked internal, with source_resolved and
\* target_resolved, kept when the resolved target matches domain_regex.
resolved_links(links, redirect_map, domain_regex) ==
    LET internal == SelectSeq(links, LAMBDA r : r.internal)
        resolved == [i \in 1..Len(internal) |->
                        [source_resolved |-> resolve_url(internal[i].url, redirect_map),
                         target_resolved |-> resolve_url(internal[i].link, redirect_map),
                         text |-> internal[i].text, nofollow |-> internal[i].nofollow]]
    IN  SelectSeq(resolved, LAMBDA r : r.target_resolved # Null
                                          /\ contains(r.target_resolved, domain_regex))

\* edges = internal_links.select(source, target, text, nofollow): one row per link.
edges_of(links, redirect_map, domain_regex) ==
    LET kept == resolved_links(links, redirect_map, domain_regex)
    IN  DataFrame(EdgeCols,
            [i \in 1..Len(kept) |->
                [source |-> kept[i].source_resolved, target |-> kept[i].target_resolved,
                 text |-> kept[i].text, nofollow |-> kept[i].nofollow]])

\* G.nodes(): the endpoints of the edge list, each once, in the order met.
RECURSIVE add_nodes(_, _)
add_nodes(nodes, edge_rows) ==
    IF edge_rows = <<>>
    THEN nodes
    ELSE LET e   == Head(edge_rows)
             ns  == IF e.source \in Range(nodes) THEN nodes ELSE Append(nodes, e.source)
             nst == IF e.target \in Range(ns) THEN ns ELSE Append(ns, e.target)
         IN  add_nodes(nst, Tail(edge_rows))

\* nx.DiGraph: the edges form a set of (source, target) pairs, a repeated pair
\* being one edge.
DiGraph(edge_rows) ==
    [nodes |-> add_nodes(<<>>, edge_rows),
     edges |-> { <<r.source, r.target>> : r \in Range(edge_rows) }]

\* The in-degree that leaves a link of the node to itself out.
in_degree_no_self_loop(G, n) == Cardinality({ e \in G.edges : e[2] = n /\ e[1] # n })

\* G.in_degree(), G.out_degree() of a node.
in_degree(G, n) == Cardinality({ e \in G.edges : e[2] = n })

\* The degree of the node in the undirected graph.
out_degree_undirected(G, n) == Cardinality({ e \in G.edges : e[1] = n \/ e[2] = n })

out_degree(G, n) == Cardinality({ e \in G.edges : e[1] = n })

\* nx.pagerank(G): power iteration with damping 0.85 from the uniform vector,
\* dangling nodes spread uniformly; scores in thousandths.
DampingPercent == 85
PrScale == 1000
PageRankIters == 3     \* iterations of the power method

pagerank_step(G, x) ==
    LET N == Len(G.nodes)
        outdeg(n) == out_degree(G, n)
        danglesum == Sum([i \in 1..N |-> IF outdeg(G.nodes[i]) = 0 THEN x[G.nodes[i]] ELSE 0])
    IN  [v \in Range(G.nodes) |->
            (DampingPercent *
                Sum([i \in 1..N |-> IF <<G.nodes[i], v>> \in G.edges
                                    THEN x[G.nodes[i]] \div outdeg(G.nodes[i]) ELSE 0])) \div 100
            + (DampingPercent * danglesum) \div (100 * N)
            + ((100 - DampingPercent) * PrScale) \div (100 * N)]

RECURSIVE pagerank_iter(_, _, _)
pagerank_iter(G, x, k) ==
    IF k = 0 THEN x ELSE pagerank_iter(G, pagerank_step(G, x), k - 1)

\* pr_ok = FALSE: nx.pagerank raised, every score is 0.0.
pagerank(G, pr_ok) ==
    IF pr_ok
    THEN pagerank_iter(G, [v \in Range(G.nodes) |-> PrScale \div Len(G.nodes)], PageRankIters)
    ELSE [v \in Range(G.nodes) |-> 0]

\* nodes_data, in the order of G.nodes().
nodes_data(G, pr) ==
    [i \in 1..Len(G.nodes) |->
        [url |-> G.nodes[i], in_degree |-> in_degree(G, G.nodes[i]),
         out_degree |-> out_degree(G, G.nodes[i]), pagerank |-> pr[G.nodes[i]]]]

\* sort("pagerank", descending=True): the orders the sort may give (it does not
\* fix the order of equal scores).
sort_pagerank_desc(rows) ==
    { f \in IterationOrders(Range(rows)) :
        \A i \in 1..(Len(f) - 1) : f[i].pagerank >= f[i + 1].pagerank }

\* Lines 361-442 of report_internal_links on the link rows advertools gave:
\* the set of (nodes, edges) results it may return.
link_tables(links, redirect_map, domain_regex, pr_ok) ==
    IF links = <<>> \/ SelectSeq(links, LAMBDA r : r.internal) = <<>>
    THEN { <<EmptyFrame, EmptyFrame>> }
    ELSE LET edges == edges_of(links, redirect_map, domain_regex)
         IN  IF is_empty(edges)
             THEN { <<EmptyFrame, EmptyFrame>> }
             ELSE LET G  == DiGraph(edges.rows)
                      pr == pagerank(G, pr_ok)
                  IN  { <<DataFrame(NodeCols, sorted), edges>> :
                          sorted \in sort_pagerank_desc(nodes_data(G, pr)) }

-----------------------------------------------------------------------------
(* Specification SpecLinks: report_internal_links on a table of links      *)

MaxLinks == 2          \* rows of the link table

ExtUrl == <<"h","t","t","p",":","/","/","b","/","x">>     \* "http://b/x"

DomainPattern == <<"/","/","a">>

LinkRows ==
    { [url |-> src, link |-> dst, text |-> <<"t">>, nofollow |-> FALSE,
       internal |-> contains(dst, DomainPattern)] :
        src \in {PageP, PageQ}, dst \in {PageP, PageQ, ExtUrl} }

RedirectMaps ==
    { <<>>, PageQ :> PageP, (PageP :> PageQ) @@ (PageQ :> PageP), PageQ :> ExtUrl }

LinkCalls ==
    [links : SeqsUpTo(LinkRows, MaxLinks), redirect_map : RedirectMaps,
     domain_regex : {DomainPattern}, pr_ok : BOOLEAN]

InitLinks ==
    /\ QueueIdle
    /\ u_in = <<Null, Null>>
    /\ u_norm = <<Null, Null>>
    /\ crawldf = Unset
    /\ sitemap_df = Unset
    /\ comp_runs = <<>>
    /\ crawl_result = Unset
    /\ dfs = <<>>
    /\ csv_files = {}
    /\ sections = <<>>
    /\ html_file = NoFile
    /\ pdf_file = NoFile
    /\ pc = "links"
    /\ call \in LinkCalls
    /\ ret = Unset

LinkAnalysis ==
    /\ pc = "links"
    /\ \E r \in link_tables(call.links, call.redirect_map, call.domain_regex, call.pr_ok) :
         ret' = [nodes |-> r[1], edges |-> r[2]]
    /\ pc' = "links_done"
    /\ UNCHANGED <<queueVars, normVars, comp_runs, crawldf, sitemap_df, crawl_result, dfs, csv_files,
                   sections, html_file, pdf_file, call>>

NextLinks == LinkAnalysis

SpecLinks == InitLinks /\ [][NextLinks]_vars

-----------------------------------------------------------------------------
(* Specification SpecRules: one call of interpret_redirects or of          *)
(* interpret_ngrams on a table                                             *)

MaxRedirectRows == 2   \* rows of the redirects table
MaxNgramRows == 2      \* rows of the n-gram table

\* Redirect tables: every row of a chain carries the chain's redirect_times.
RedirectRows ==
    { [url |-> PageP, redirect_url |-> PageQ, redirect_times |-> t] : t \in 0..4 }

RedirectTables ==
    { DataFrame(RedirectCols, rows) : rows \in SeqsUpTo(RedirectRows, MaxRedirectRows) }
    \cup { DataFrame(<<"url", "redirect_url">>, << [url |-> PageP, redirect_url |-> PageQ] >>),
           None }

BrandX == <<"b","r","a","n","d","x">>

NgramWords == { BrandX, <<"W","e","l","z","i","n">>, <<"s","e","o">> }

NgramRows == { [word |-> w, abs_freq |-> c] : w \in NgramWords, c \in {1, 4, 6} }

NgramTables ==
    { DataFrame(NgramCols, rows) : rows \in SeqsUpTo(NgramRows, MaxNgramRows) } \cup { None }

RuleCalls ==
    { [rule |-> "redirects", df |-> df, n |-> 0] : df \in RedirectTables }
    \cup { [rule |-> "ngrams", df |-> df, n |-> 1] : df \in NgramTables }

InitRules ==
    /\ QueueIdle
    /\ u_in = <<Null, Null>>
    /\ u_norm = <<Null, Null>>
    /\ crawldf = Unset
    /\ sitemap_df = Unset
    /\ comp_runs = <<>>
    /\ crawl_result = Unset
    /\ dfs = <<>>
    /\ csv_files = {}
    /\ sections = <<>>
    /\ html_file = NoFile
    /\ pdf_file = NoFile
    /\ pc = "rule"
    /\ call \in RuleCalls
    /\ ret = Unset

InterpretRedirects ==
    /\ pc = "rule"
    /\ call.rule = "redirects"
    /\ ret' = interpret_redirects(call.df)
    /\ pc' = "rule_done"
    /\ UNCHANGED <<queueVars, normVars, comp_runs, crawldf, sitemap_df, crawl_result, dfs, csv_files,
                   sections, html_file, pdf_file, call>>

InterpretNgrams ==
    /\ pc = "rule"
    /\ call.rule = "ngrams"
    /\ ret' = interpret_ngrams(call.df, call.n)
    /\ pc' = "rule_done"
    /\ UNCHANGED <<queueVars, normVars, comp_runs, crawldf, sitemap_df, crawl_result, dfs, csv_files,
                   sections, html_file, pdf_file, call>>

NextRules == InterpretRedirects \/ InterpretNgrams

SpecRules == InitRules /\ [][NextRules]_vars

-----------------------------------------------------------------------------
(* Specification SpecApp: one POST /seo-audit request of app.py, which     *)
(* runs main and then sends the report                                     *)

PdfMethods == << "pandoc_wkhtmltopdf", "pandoc", "pdfkit", "weasyprint" >>

\* html_to_pdf: the methods are tried in order, each in its own try block; the
\* first that succeeds returns pdf_path, and None is returned when all fail.
\* works[k]: whether method k succeeds.
html_to_pdf(works) ==
    IF \E k \in 1..Len(PdfMethods) : works[k]
    THEN [pdf_path |-> TRUE,
          method |-> PdfMethods[CHOOSE k \in 1..Len(PdfMethods) :
                                    works[k] /\ \A j \in 1..(k - 1) : ~works[j]]]
    ELSE None

\* The file sent when any PDF file at pdf_path is taken for the conversion's.
send_choice_by_file(pdf_result, pdf_exists) ==
    IF pdf_exists THEN "pdf" ELSE "html"

\* if pdf_result and os.path.exists(pdf_path): send the PDF, else the HTML.
send_choice(pdf_result, pdf_exists) ==
    IF pdf_result # None /\ pdf_exists THEN "pdf" ELSE "html"

InitApp ==
    /\ QueueIdle
    /\ u_in = <<Null, Null>>
    /\ u_norm = <<Null, Null>>
    /\ comp_runs = <<>>
    /\ pc = "app_request"
    /\ crawldf = Unset
    /\ sitemap_df = Unset
    /\ crawl_result = Unset
    /\ dfs = [n \in TableNames |-> Unset]
    /\ csv_files = {}
    /\ sections = <<>>
    /\ html_file = NoFile
    /\ pdf_file = NoFile
    /\ call \in [email_ok : BOOLEAN]
    /\ ret = Unset

\* The email check (a ValueError outside the try block: answered 500), then
\* run_seo_audit(customer_name, url).
AppValidate ==
    /\ pc = "app_request"
    /\ IF call.email_ok
       THEN pc' = "crawl" /\ UNCHANGED ret
       ELSE pc' = "app_responded" /\ ret' = [response |-> [status |-> 500]]
    /\ UNCHANGED <<queueVars, normVars, comp_runs, crawldf, sitemap_df, crawl_result, dfs, csv_files,
                   sections, html_file, pdf_file, call>>

\* main has returned: the HTML report is looked up in the output directory.
AppLocateHtml ==
    /\ pc = "done"
    /\ IF html_file.exists
       THEN pc' = "app_convert" /\ UNCHANGED ret
       ELSE pc' = "app_responded" /\ ret' = [response |-> [status |-> 500]]
    /\ UNCHANGED <<queueVars, normVars, comp_runs, crawldf, sitemap_df, crawl_result, dfs, csv_files,
                   sections, html_file, pdf_file, call>>

\* pdf_result = html_to_pdf(html_file, pdf_path)
AppConvert ==
    /\ pc = "app_convert"
    /\ \E works \in [1..Len(PdfMethods) -> BOOLEAN] : \E r \in { html_to_pdf(works) } :
         /\ ret' = [pdf_result |-> r]
         /\ pdf_file' = IF r # None THEN File(html_file.content) ELSE pdf_file
    /\ pc' = "app_send"
    /\ UNCHANGED <<queueVars, normVars, comp_runs, crawldf, sitemap_df, crawl_result, dfs, csv_files,
                   sections, html_file, call>>

\* send_file(pdf_path) or send_file(html_file)
AppSend ==
    /\ pc = "app_send"
    /\ \E sent \in { send_choice(ret.pdf_result, pdf_file.exists) } :
         ret' = [pdf_result |-> ret.pdf_result,
                 response |-> [status |-> 200, sent |-> sent,
                               body |-> IF sent = "pdf" THEN pdf_file ELSE html_file]]
    /\ pc' = "app_responded"
    /\ UNCHANGED <<queueVars, normVars, comp_runs, crawldf, sitemap_df, crawl_result, dfs, csv_files,
                   sections, html_file, pdf_file, call>>

NextApp == AppValidate \/ NextMain \/ AppLocateHtml \/ AppConvert \/ AppSend

SpecApp == InitApp /\ [][NextApp]_vars

-----------------------------------------------------------------------------
(* Specification SpecResolve: one call of resolve_url, an iteration of its *)
(* while loop at a time                                                    *)

ResolveUrls == { PageP, PageQ, RootUrl, ExtUrl }

\* Every redirect_map over the URLs: url -> redirect_url for some of them.
ResolveMaps == UNION { [D -> ResolveUrls] : D \in SUBSET ResolveUrls }

InitResolve ==
    /\ QueueIdle
    /\ u_in = <<Null, Null>>
    /\ u_norm = <<Null, Null>>
    /\ crawldf = Unset
    /\ sitemap_df = Unset
    /\ comp_runs = <<>>
    /\ crawl_result = Unset
    /\ dfs = <<>>
    /\ csv_files = {}
    /\ sections = <<>>
    /\ html_file = NoFile
    /\ pdf_file = NoFile
    /\ pc = "resolve_loop"
    /\ call \in [u : ResolveUrls \cup {Null}, redirect_map : ResolveMaps]
    /\ ret = [seen |-> {}, cur |-> call.u]

\* The loop condition without the test of the URLs already visited.
LoopCondition_unguarded ==
    /\ call.u # Null
    /\ ret.cur \in DOMAIN call.redirect_map

\* while cur in redirect_map and cur not in seen
LoopCondition ==
    /\ call.u # Null
    /\ ret.cur \in DOMAIN call.redirect_map
    /\ ret.cur \notin ret.seen

\* seen.add(cur); cur = redirect_map[cur]
ResolveStep ==
    /\ pc = "resolve_loop"
    /\ LoopCondition
    /\ ret' = [seen |-> ret.seen \cup {ret.cur}, cur |-> call.redirect_map[ret.cur]]
    /\ UNCHANGED <<queueVars, normVars, comp_runs, crawldf, sitemap_df, mainVars, call>>

\* return cur (return u at once when u is None)
ResolveReturn ==
    /\ pc = "resolve_loop"
    /\ ~LoopCondition
    /\ pc' = "resolved"
    /\ UNCHANGED <<queueVars, normVars, comp_runs, crawldf, sitemap_df, crawl_result, dfs, csv_files,
                   sections, html_file, pdf_file, call, ret>>

NextResolve == ResolveStep \/ ResolveReturn

SpecResolve == InitResolve /\ [][NextResolve]_vars

\* The call is one sequential piece of code: it takes its next step while it
\* has one.
SpecResolveFair == SpecResolve /\ WF_vars(NextResolve)

-----------------------------------------------------------------------------
(* Claims about reconciliation                                             *)

NormCrawlUrls == { normalize_url(r.url) : r \in Range(crawldf.rows) }

NormSitemapUrls ==
    IF sitemap_df = None THEN {} ELSE { normalize_url(r.loc) : r \in Range(sitemap_df.rows) }

SitemapIsEmpty == sitemap_df = None \/ Len(sitemap_df.rows) = 0

\* C1: in every row produced by report_sitemap_vs_crawl, orphaned and uncatalogued
\* are never both true, the URL is in the crawl set or in the sitemap set (and the
\* two flags say in which), orphaned = in_sitemap and not in_crawl, and
\* uncatalogued = in_crawl and not in_sitemap.
C1_ReconRowFlags ==
    \A k \in 1..Len(comp_runs) : \A row \in RowSet(comp_runs[k]) :
        /\ ~(row.orphaned /\ row.uncatalogued)
        /\ row.in_crawl \/ row.in_sitemap
        /\ row.in_crawl = (row.url \in NormCrawlUrls)
        /\ row.in_sitemap = (row.url \in NormSitemapUrls)
        /\ row.orphaned = (row.in_sitemap /\ ~row.in_crawl)
        /\ row.uncatalogued = (row.in_crawl /\ ~row.in_sitemap)

\* One run has produced an orphaned row and an uncatalogued row.
C1_OrphanedAndUncatalogued ==
    /\ Len(comp_runs) >= 1
    /\ \E r1, r2 \in RowSet(comp_runs[1]) : r1.orphaned /\ r2.uncatalogued

\* C2 (as claimed): with an empty or absent sitemap and a non-empty crawl, the
\* output is non-empty: one row per crawled URL, each with in_sitemap = FALSE and
\* orphaned = FALSE.
C2_EmptySitemapKeepsCrawlRows ==
    \A k \in 1..Len(comp_runs) :
        (SitemapIsEmpty /\ Len(crawldf.rows) > 0) =>
            /\ ~is_empty(comp_runs[k])
            /\ { row.url : row \in RowSet(comp_runs[k]) } = NormCrawlUrls
            /\ \A row \in RowSet(comp_runs[k]) : ~row.in_sitemap /\ ~row.orphaned

\* Reconciliation has run on a non-empty crawl and an empty sitemap.
C2_EmptySitemapRun ==
    Len(comp_runs) >= 1 /\ SitemapIsEmpty /\ Len(crawldf.rows) > 0

\* C4: with an empty crawl and a non-empty sitemap the output has exactly one row
\* per (normalized) sitemap URL, each with orphaned = TRUE, in_crawl = FALSE and
\* uncatalogued = FALSE.
C4_EmptyCrawlAllOrphaned ==
    \A k \in 1..Len(comp_runs) :
        (Len(crawldf.rows) = 0 /\ ~SitemapIsEmpty) =>
            /\ { row.url : row \in RowSet(comp_runs[k]) } = NormSitemapUrls
            /\ Len(comp_runs[k].rows) = Cardinality(NormSitemapUrls)
            /\ \A row \in RowSet(comp_runs[k]) :
                  row.orphaned /\ ~row.in_crawl /\ ~row.uncatalogued /\ row.in_sitemap

\* Reconciliation has run on an empty crawl and a sitemap of two distinct URLs.
C4_EmptyCrawlRun ==
    /\ Len(comp_runs) >= 1
    /\ Len(crawldf.rows) = 0
    /\ Cardinality(NormSitemapUrls) = 2
    /\ Len(comp_runs[1].rows) = 2

\* C5: two runs of report_sitemap_vs_crawl on the same inputs return the same set
\* of rows (lastmod and sitemap source included), whatever order each run
\* iterated the URL set in.
C5_ReconIdempotent ==
    \A j, k \in 1..Len(comp_runs) :
        /\ RowSet(comp_runs[j]) = RowSet(comp_runs[k])
        /\ comp_runs[j].cols = comp_runs[k].cols

\* Two runs have produced their rows in different orders, one URL being outside
\* the sitemap and one inside it.
C5_TwoRunsDifferentOrder ==
    /\ Len(comp_runs) >= 2
    /\ comp_runs[1].rows # comp_runs[2].rows
    /\ \E r1, r2 \in RowSet(comp_runs[1]) : r1.in_sitemap /\ ~r2.in_sitemap /\ r1.lastmod # Null

-----------------------------------------------------------------------------
(* Claims about the pipeline and the report                                *)

SectionOf(name) == sections[CHOOSE k \in 1..Len(SectionNames) : SectionNames[k] = name]

SectionsBuilt == pc \in {"write_html", "write_pdf", "done"}

RECURSIVE CountFlags(_)
CountFlags(secs) ==
    IF secs = <<>> THEN 0 ELSE Len(Head(secs).insight.red_flags) + CountFlags(Tail(secs))

\* Scenario A has run: the crawl gave the one page, the sitemap stage gave no
\* row, and the sections are built (the Meta rule having run).
ScenarioARun ==
    /\ SectionsBuilt
    /\ crawldf = ScenarioAPages
    /\ is_empty(sitemap_df)
    /\ SectionOf("Meta").insight.kind = "rule"

\* C3 (as claimed): in Scenario A the Meta insight reports 1 missing title and
\* the Sitemap_vs_Crawl insight reports 1 uncatalogued URL and 0 orphaned.
C3_ScenarioA ==
    ScenarioARun =>
        /\ SectionOf("Meta").insight.summary.missing_titles = 1
        /\ SectionOf("Sitemap_vs_Crawl").insight.kind = "rule"
        /\ SectionOf("Sitemap_vs_Crawl").insight.summary.uncatalogued = 1
        /\ SectionOf("Sitemap_vs_Crawl").insight.summary.orphaned = 0

\* Scenario A has run and the Meta insight reports its 1 missing title.
C3_ScenarioAMetaReported ==
    /\ ScenarioARun
    /\ SectionOf("Meta").insight.summary.missing_titles = 1
    /\ Flag("missing_titles", 1) \in Range(SectionOf("Meta").insight.red_flags)

\* C7 (as claimed): every table a reporter call of main has produced, the two
\* tables of the internal-links reporter included, is a table (never None) that
\* carries the reporter's expected columns.
C7_EveryReporterTableHasSchema ==
    \A n \in TableNames :
        dfs[n] # Unset =>
            /\ IsFrame(dfs[n])
            /\ has_cols(dfs[n], ExpectedSchema[n])

\* The internal-links reporter has been called on a crawl that failed.
C7_InternalLinksOnFailedCrawl ==
    /\ crawl_result = None
    /\ dfs["nodes_df"] # Unset
    /\ dfs["ngram_1_df"] # Unset

\* Every dimension failed: each table a section interprets has no rows.
EveryDimensionFailed ==
    \A n \in Range(SectionNames) : Absent(dfs[SectionTable[n]])

\* C8: whatever failed (crawl, robots, sitemap, reporters, insight rules), a run
\* of main reaches report assembly and ends; the sections assembled, and the
\* headings of the report written, are the 14 dimensions in order; and when
\* every dimension failed, every section is the neutral no-data insight and the
\* report holds no red flag at all.
C8_ReportAlwaysAssembled ==
    /\ <>(pc = "done")
    /\ [](SectionsBuilt => [k \in 1..Len(sections) |-> sections[k].name] = SectionNames)
    /\ [](html_file.exists =>
            [k \in 1..Len(html_file.content) |-> html_file.content[k].heading] = SectionNames)
    /\ []((SectionsBuilt /\ EveryDimensionFailed) =>
            /\ \A k \in 1..Len(sections) : sections[k].insight.kind = "nodata"
            /\ CountFlags(sections) = 0)

\* A run in which the crawl failed and every dimension failed has ended with
\* its report written.
C8_AllFailedReportWritten ==
    /\ pc = "done"
    /\ crawl_result = None
    /\ EveryDimensionFailed
    /\ html_file.exists
    /\ Len(html_file.content) = 14

CrawlFailed == crawl_result = None

\* C9 (as claimed): when the crawl step fails the run is aborted, and nothing
\* else aborts it.
C9_CrawlFailureAborts ==
    /\ CrawlFailed => pc = "aborted"
    /\ pc = "aborted" => CrawlFailed

\* C9 (amended): a failed crawl does not abort the run: safe_run substitutes a
\* table with the crawl columns and no rows, main goes on to its next stages,
\* and no failure of any stage aborts the run.
C9_NoFailureAborts ==
    /\ pc # "aborted"
    /\ CrawlFailed => crawldf = SchemaFrame(CrawlCols)

\* A run whose crawl failed has gone through every stage to the end.
C9_FailedCrawlRunCompleted ==
    /\ CrawlFailed
    /\ pc = "done"
    /\ Len(sections) = 14
    /\ \A n \in TableNames : dfs[n] # Unset

\* The table the section was called on.
SectionInput == dfs[SectionTable[section_called]]

\* C10: for every dimension, a call of the insight engine on an empty or absent
\* table does not raise and appends the neutral no-data insight, with an empty
\* red-flag list; the rule function is not run (no aggregate, no preview).
C10_EmptyTableNeutralInsight ==
    /\ pc # "aborted"
    /\ (pc = "section_added" /\ Absent(SectionInput)) =>
          /\ sections[1].name = section_called
          /\ sections[1].insight = NoDataInsight(section_called)
          /\ sections[1].insight.red_flags = <<>>
          /\ sections[1].df_preview = NoPreview

\* The engine has been called for the Meta dimension on an absent table.
C10_MetaSectionOnAbsentTable ==
    /\ pc = "section_added"
    /\ section_called = "Meta"
    /\ SectionInput = None

\* What the call for section k appends when its rule function does not raise.
CleanSection(k) ==
    add_section(SectionNames[k], dfs[SectionTable[SectionNames[k]]], dfs["edges_df"], FALSE)

\* C11: when the rule function of a dimension raises on a non-empty table, the
\* run is not aborted and the sections are assembled; the section of that
\* dimension carries the neutral "could not be generated" insight with no red
\* flag (its name and preview unchanged), and every other section is exactly
\* what it is when no rule raises.
C11_RuleFailureIsLocal ==
    /\ pc # "aborted"
    /\ SectionsBuilt =>
          \A k \in 1..Len(SectionNames) :
              \/ sections[k] = CleanSection(k)
              \/ /\ ~Absent(dfs[SectionTable[SectionNames[k]]])
                 /\ sections[k].insight.kind = "failed"
                 /\ sections[k].insight.summary.name = SectionNames[k]
                 /\ sections[k].insight.red_flags = <<>>
                 /\ sections[k].name = SectionNames[k]
                 /\ sections[k].df_preview = CleanSection(k).df_preview

\* The Meta rule raised on a table with rows, the Status rule ran on its table,
\* and the run ended with its report written.
C11_MetaRuleRaised ==
    /\ pc = "done"
    /\ html_file.exists
    /\ ~Absent(dfs["meta_df"])
    /\ SectionOf("Meta").insight.kind = "failed"
    /\ SectionOf("Status").insight.kind = "rule"

\* The dimension order the report is specified to have.
FixedDimensionOrder ==
    << "Rendering_Mode", "Robots", "Meta", "Headings", "Schema_Check", "Canonicals", "Status",
       "Sitemap_vs_Crawl", "URL_Structure", "Redirects", "Internal_Links",
       "Ngrams_1", "Ngrams_2", "Ngrams_3" >>

\* C12: once assembled, the report has exactly 14 sections, in the fixed order
\* rendering mode, robots, meta, headings, schema, canonicals, status,
\* sitemap-vs-crawl, URL structure, redirects, internal links, n-grams 1, 2, 3,
\* whichever dimensions are empty or failed; the HTML file written has the same
\* 14 headings in the same order; and the section list only ever changes from
\* empty to these 14 sections.
C12_FourteenSectionsInOrder ==
    /\ [](SectionsBuilt =>
            /\ Len(sections) = 14
            /\ \A k \in 1..14 : sections[k].name = FixedDimensionOrder[k])
    /\ [](html_file.exists =>
            /\ Len(html_file.content) = 14
            /\ \A k \in 1..14 : html_file.content[k].heading = FixedDimensionOrder[k])
    /\ [][sections' # sections => (sections = <<>> /\ Len(sections') = 14)]_vars

\* A report has been written in which one dimension is empty, one dimension's
\* rule raised and one dimension's rule ran.
C12_MixedReportWritten ==
    /\ pc = "done"
    /\ html_file.exists
    /\ \E i, j, k \in 1..Len(sections) :
          /\ sections[i].insight.kind = "nodata"
          /\ sections[j].insight.kind = "failed"
          /\ sections[k].insight.kind = "rule"

\* The request has been answered with a score.
AuditScored == pc = "responded" /\ ret.response.status = 200

LinksDone == pc = "links_done"

\* C14 (as claimed): in the output of report_internal_links, on any table of
\* internal links (a link given more than once included), the out_degree
\* column of the nodes table sums to the number of rows of the edges table,
\* and so does the in_degree column.
C14_DegreeSumsEqualEdgeCount ==
    LinksDone =>
        /\ int_sum(ret.nodes, "out_degree") = Len(ret.edges.rows)
        /\ int_sum(ret.nodes, "in_degree") = Len(ret.edges.rows)

\* The analysis has run on a table holding the same link twice: the edges
\* table has two rows and the out-degrees sum to one.
C14_DuplicateLinkAnalysed ==
    /\ LinksDone
    /\ Len(call.links) = 2
    /\ call.links[1] = call.links[2]
    /\ Len(ret.edges.rows) = 2
    /\ int_sum(ret.nodes, "out_degree") = 1

LinkRow(src, dst) ==
    [url |-> src, link |-> dst, text |-> <<"t">>, nofollow |-> FALSE, internal |-> TRUE]

\* Scenario B: the link table is a -> b and b -> a (in either order), nothing
\* redirects, and the domain pattern matches both pages.
ScenarioBCall ==
    /\ call.links \in { <<LinkRow(PageP, PageQ), LinkRow(PageQ, PageP)>>,
                        <<LinkRow(PageQ, PageP), LinkRow(PageP, PageQ)>> }
    /\ call.redirect_map = <<>>
    /\ contains(PageP, call.domain_regex) /\ contains(PageQ, call.domain_regex)

\* C15: in Scenario B the nodes table has exactly 2 rows, one per page, each
\* with in-degree 1 and out-degree 1, and the two importance scores are equal.
C15_ScenarioBSymmetricNodes ==
    (LinksDone /\ ScenarioBCall) =>
        /\ Len(ret.nodes.rows) = 2
        /\ { r.url : r \in RowSet(ret.nodes) } = {PageP, PageQ}
        /\ \A r \in RowSet(ret.nodes) : r.in_degree = 1 /\ r.out_degree = 1
        /\ ret.nodes.rows[1].pagerank = ret.nodes.rows[2].pagerank

\* Scenario B has been analysed with the ranking computed: both pages score
\* half of the total.
C15_ScenarioBAnalysed ==
    /\ LinksDone
    /\ ScenarioBCall
    /\ call.pr_ok
    /\ Len(ret.edges.rows) = 2
    /\ \A r \in RowSet(ret.nodes) : r.pagerank = 500

RuleDone(rule) == pc = "rule_done" /\ call.rule = rule

HasFlag(insight, id) == \E k \in 1..Len(insight.red_flags) : insight.red_flags[k].flag = id

\* The largest redirect_times of the table, 0 when it has no such column.
LongestChain(df) ==
    IF "redirect_times" \in Range(df.cols)
    THEN CHOOSE t \in { r.redirect_times : r \in RowSet(df) } :
            \A r \in RowSet(df) : r.redirect_times <= t
    ELSE 0

\* C16: the Redirects insight carries the long-redirect-chain red flag exactly
\* when the longest chain length, the maximum redirect_times of the table, is
\* greater than 2: a longest chain of 3 is flagged, one of 2 or less is not (nor
\* is an empty or absent table).
C16_LongChainFlagIffOverTwo ==
    RuleDone("redirects") =>
        IF Absent(call.df)
        THEN ~HasFlag(ret, "long_redirect_chain")
        ELSE /\ HasFlag(ret, "long_redirect_chain") <=> LongestChain(call.df) > 2
             /\ LongestChain(call.df) = 3 => HasFlag(ret, "long_redirect_chain")
             /\ LongestChain(call.df) <= 2 => ret.red_flags = <<>>

\* The rule has run on a table whose longest chain, 3, is not in its first row,
\* and has flagged it.
C16_ChainOfThreeFlagged ==
    /\ RuleDone("redirects")
    /\ call.df # None
    /\ Len(call.df.rows) = 2
    /\ call.df.rows[1].redirect_times = 2
    /\ call.df.rows[2].redirect_times = 3
    /\ ret.red_flags = << Flag("long_redirect_chain", 3) >>

\* Occurrences of the rows whose phrase, trimmed and lower-cased, is token.
TokenOccurrences(df, token) ==
    Sum([i \in 1..Len(df.rows) |->
            IF lower(strip(df.rows[i].word)) = token THEN df.rows[i].abs_freq ELSE 0])

TotalOccurrences(df) == Sum([i \in 1..Len(df.rows) |-> df.rows[i].abs_freq])

\* One token accounts for more than 30% of the phrase occurrences of the table.
DominantToken(df) ==
    \E i \in 1..Len(df.rows) :
        10 * TokenOccurrences(df, lower(strip(df.rows[i].word))) > 3 * TotalOccurrences(df)

\* C17 (as claimed): for an n-gram table in which a single token makes up more
\* than 30% of the phrase occurrences (the brand token "brandx" with 40% in
\* Scenario D), the Ngrams insight carries the "brand name dominates" red flag,
\* whatever the token is.
C17_DominantTokenFlagged ==
    (RuleDone("ngrams") /\ ~Absent(call.df) /\ DominantToken(call.df)) =>
        HasFlag(ret, "brand_dominates")

\* Scenario D has been interpreted: "brandx" has 4 of the 10 occurrences and
\* the insight carries no red flag.
C17_BrandxFortyPercentUnflagged ==
    /\ RuleDone("ngrams")
    /\ call.df # None
    /\ Len(call.df.rows) = 2
    /\ TokenOccurrences(call.df, BrandX) = 4
    /\ TotalOccurrences(call.df) = 10
    /\ ret.red_flags = <<>>

CsvSaved == pc \in {"report", "write_html", "write_pdf", "done"}

\* The non-empty tables whose file is missing after the CSV files are saved.
MissingCsv == { n \in CsvTables : HasRows(n) /\ n \notin csv_files }

\* C18 (as claimed): the per-dimension files are written independently: once
\* the CSV files are saved, at most one non-empty table (the one whose write
\* failed) is without its file; no other table's file is lost with it.
C18_CsvWritesIndependent ==
    CsvSaved => Cardinality(MissingCsv) <= 1

\* The write of the meta report failed: the overview file, written before it,
\* exists, and the files of the status and rendering tables, which have rows,
\* were not written.
C18_LaterFilesLost ==
    /\ CsvSaved
    /\ "overview_df" \in csv_files
    /\ {"meta_df", "status_df", "rendering_df"} \subseteq MissingCsv

\* C19: a failure of the PDF conversion is never a failure of the run.  In main,
\* the PDF step leaves the HTML report as written and ends the run, whether the
\* conversion worked or not, and the run is never aborted; in the HTTP front
\* end, when every conversion method failed the request is answered 200 with
\* the HTML report that main wrote.
C19_PdfFailureKeepsHtml ==
    /\ [][pc = "write_pdf" => (html_file' = html_file /\ html_file.exists /\ pc' = "done")]_vars
    /\ [](pc # "aborted")
    /\ []((pc = "app_responded" /\ html_file.exists /\ ret.pdf_result = None) =>
            /\ ret.response.status = 200
            /\ ret.response.sent = "html"
            /\ ret.response.body = html_file)

\* The conversion failed in main and by every method of the front end, and
\* the request has been answered with the HTML report.
C19_HtmlSentAfterAllPdfFailures ==
    /\ pc = "app_responded"
    /\ html_file.exists
    /\ pdf_file = NoFile
    /\ ret.pdf_result = None
    /\ ret.response.sent = "html"

\* The k-th URL of the chain that starts at u (the 0-th is u itself).
RECURSIVE ChainAt(_, _, _)
ChainAt(u, redirect_map, k) ==
    IF k = 0 THEN u ELSE ChainAt(redirect_map[u], redirect_map, k - 1)

Resolved == pc = "resolved" /\ call.u # Null

\* The resolution stopped on a URL it had already visited.
CycleMet == ret.cur \in ret.seen

\* C20 (as claimed): resolve_url terminates for every redirect map, cyclic ones
\* included; when the chain of the URL is acyclic the result is the terminal
\* URL, which is no key of the map; when a cycle is met the resolution stops at
\* the first revisit of a URL and returns the last distinct URL reached before
\* that revisit.
C20_ResolveTerminatesAtLastDistinct ==
    /\ <>(pc = "resolved")
    /\ []((Resolved /\ ~CycleMet) => ret.cur \notin DOMAIN call.redirect_map)
    /\ []((Resolved /\ CycleMet) =>
            ret.cur = ChainAt(call.u, call.redirect_map, Cardinality(ret.seen) - 1))

\* C20 (amended): resolve_url terminates for every redirect map, cyclic ones
\* included; when the chain of the URL is acyclic the result is the terminal
\* URL, which is no key of the map; when a cycle is met the resolution stops at
\* the first revisit of a URL and returns the revisited URL, every URL visited
\* before it being distinct.
C20_ResolveTerminatesAtRevisited ==
    /\ <>(pc = "resolved")
    /\ [](Resolved => ret.cur = resolve_url(call.u, call.redirect_map))
    /\ []((Resolved /\ ~CycleMet) => ret.cur \notin DOMAIN call.redirect_map)
    /\ []((Resolved /\ CycleMet) =>
            /\ ret.cur = ChainAt(call.u, call.redirect_map, Cardinality(ret.seen))
            /\ ret.seen = { ChainAt(call.u, call.redirect_map, k) :
                               k \in 0..(Cardinality(ret.seen) - 1) })

\* The resolution of a URL on a cycle of two URLs has returned: the URL
\* returned is the one revisited, not the one reached last before it.
C20_TwoCycleReturnsRevisited ==
    /\ Resolved
    /\ CycleMet
    /\ Cardinality(ret.seen) = 2
    /\ ret.cur = call.u
    /\ ChainAt(call.u, call.redirect_map, 1) # call.u

\* The rows of the edges table that link a URL to itself.
SelfLoopRows == { e \in RowSet(ret.edges) : e.source = e.target }

\* The links of the call that are internal and whose resolved target matches
\* the domain pattern.
KeptLinks ==
    { i \in 1..Len(call.links) :
        /\ call.links[i].internal
        /\ contains(resolve_url(call.links[i].link, call.redirect_map), call.domain_regex) }

\* C21: when no internal edge remains after the filtering, report_internal_links
\* returns two empty tables and raises nothing; when some remain, every link
\* whose resolved source equals its resolved target is a row of the edges table,
\* and its node counts it once in its in-degree and once in its out-degree, on
\* top of the links from and to the other nodes.
C21_SelfLoopRetainedAndCounted ==
    LinksDone =>
        /\ ret.nodes # Raised /\ ret.edges # Raised
        /\ KeptLinks = {} => (is_empty(ret.nodes) /\ is_empty(ret.edges))
        /\ KeptLinks # {} =>
            /\ Len(ret.edges.rows) = Cardinality(KeptLinks)
            /\ \A i \in KeptLinks :
                 LET s == resolve_url(call.links[i].url, call.redirect_map)
                     t == resolve_url(call.links[i].link, call.redirect_map)
                 IN  s = t => \E e \in SelfLoopRows : e.source = s
            /\ \A e \in SelfLoopRows :
                 \E r \in RowSet(ret.nodes) :
                    /\ r.url = e.source
                    /\ r.in_degree =
                         1 + Cardinality({ x.source : x \in { y \in RowSet(ret.edges) :
                                              y.target = e.source /\ y.source # e.source } })
                    /\ r.out_degree =
                         1 + Cardinality({ x.target : x \in { y \in RowSet(ret.edges) :
                                              y.source = e.source /\ y.target # e.source } })

\* The analysis has run on a link of a page to itself and a link from the
\* other page to it: the table of nodes has both pages, and the page linked to
\* has in-degree 2 and out-degree 1.
C21_SelfLoopAnalysed ==
    /\ LinksDone
    /\ Len(ret.edges.rows) = 2
    /\ Len(ret.nodes.rows) = 2
    /\ \E e \in SelfLoopRows :
         \E r \in RowSet(ret.nodes) : r.url = e.source /\ r.in_degree = 2 /\ r.out_degree = 1

-----------------------------------------------------------------------------
(* Specification SpecReport: report_meta and report_canonicals on a crawl  *)
(* table                                                                   *)

MaxReportRows == 1     \* rows of the crawl table

Blank == <<" ">>

\* Titles and descriptions a page may carry: none, empty, blank, text, text
\* after a blank.
MetaTexts == { Null, <<>>, Blank, <<"T">>, <<" ", "T">> }

CrawlPageRows ==
    { [url |-> u, title |-> t, meta_desc |-> d, h1 |-> Null, canonical |-> c, status |-> 200] :
        u \in {PageP, PagePUpper}, t \in MetaTexts, d \in {Null, Blank, <<"d">>},
        c \in {Null, PageP, PagePUpper, PageQ} }

ReportCalls ==
    [reporter : {"meta", "canonicals"},
     crawl_df : { DataFrame(CrawlCols, rows) : rows \in SeqsUpTo(CrawlPageRows, MaxReportRows) }]

InitReport ==
    /\ QueueIdle
    /\ u_in = <<Null, Null>>
    /\ u_norm = <<Null, Null>>
    /\ crawldf = Unset
    /\ sitemap_df = Unset
    /\ comp_runs = <<>>
    /\ crawl_result = Unset
    /\ dfs = <<>>
    /\ csv_files = {}
    /\ sections = <<>>
    /\ html_file = NoFile
    /\ pdf_file = NoFile
    /\ pc = "reporter"
    /\ call \in ReportCalls
    /\ ret = Unset

ReportMeta ==
    /\ pc = "reporter"
    /\ call.reporter = "meta"
    /\ ret' = report_meta(call.crawl_df)
    /\ pc' = "reported"
    /\ UNCHANGED <<queueVars, normVars, comp_runs, crawldf, sitemap_df, crawl_result, dfs, csv_files,
                   sections, html_file, pdf_file, call>>

ReportCanonicals ==
    /\ pc = "reporter"
    /\ call.reporter = "canonicals"
    /\ ret' = report_canonicals(call.crawl_df)
    /\ pc' = "reported"
    /\ UNCHANGED <<queueVars, normVars, comp_runs, crawldf, sitemap_df, crawl_result, dfs, csv_files,
                   sections, html_file, pdf_file, call>>

NextReport == ReportMeta \/ ReportCanonicals

SpecReport == InitReport /\ [][NextReport]_vars

Reported(reporter) == pc = "reported" /\ call.reporter = reporter

\* The text is null or empty once its whitespace is trimmed.
BlankOrMissing(v) == v = Null \/ strip(v) = <<>>

\* C22 (as claimed): in the Meta report, title_missing (description_missing) is
\* true exactly when the title (meta description) of the page is null or empty
\* after trimming whitespace, title_length and desc_length are the character
\* counts, 0 for a missing or empty value, and a row with title_missing false
\* has a title of positive length with content that is not whitespace.
C22_MissingIffBlankAfterTrim ==
    Reported("meta") =>
        /\ Len(ret.rows) = Len(call.crawl_df.rows)
        /\ \A i \in 1..Len(ret.rows) :
             LET row == call.crawl_df.rows[i]
                 out == ret.rows[i]
             IN  /\ out.title_missing <=> BlankOrMissing(row.title)
                 /\ out.description_missing <=> BlankOrMissing(row.meta_desc)
                 /\ out.title_length = (IF row.title = Null THEN 0 ELSE Len(row.title))
                 /\ out.desc_length = (IF row.meta_desc = Null THEN 0 ELSE Len(row.meta_desc))
                 /\ ~out.title_missing => (out.title_length > 0 /\ strip(row.title) # <<>>)

\* The Meta report of a page whose title is one blank: the title counts as
\* present, with length 1.
C22_BlankTitleNotMissing ==
    /\ Reported("meta")
    /\ Len(ret.rows) = 1
    /\ call.crawl_df.rows[1].title = Blank
    /\ ret.rows[1].title_missing = FALSE
    /\ ret.rows[1].title_length = 1

\* C23 (as claimed): in the Canonical report, canonical_missing is true exactly
\* when the canonical of the page is null, self_referencing is true exactly
\* when the canonical and the URL of the page have the same normalized form
\* (case and trailing slash ignored), and a page without canonical is never
\* self_referencing.
C23_SelfReferencingOnNormalizedForm ==
    Reported("canonicals") =>
        /\ Len(ret.rows) = Len(call.crawl_df.rows)
        /\ \A i \in 1..Len(ret.rows) :
             LET row == call.crawl_df.rows[i]
                 out == ret.rows[i]
             IN  /\ out.canonical_missing <=> row.canonical = Null
                 /\ out.self_referencing <=>
                      /\ row.canonical # Null
                      /\ normalize_url(row.canonical) = normalize_url(row.url)
                 /\ out.canonical_missing => ~out.self_referencing

\* The Canonical report of the page "http://a/P/" whose canonical is
\* "http://a/p": the same URL in normalized form, reported as not
\* self-referencing.
C23_CaseVariantNotSelfReferencing ==
    /\ Reported("canonicals")
    /\ Len(ret.rows) = 1
    /\ call.crawl_df.rows[1].url = PagePUpper
    /\ call.crawl_df.rows[1].canonical = PageP
    /\ ret.rows[1].canonical_missing = FALSE
    /\ ret.rows[1].self_referencing = FALSE

-----------------------------------------------------------------------------
(* Specification SpecRendering: check_rendering_mode on the entry page,    *)
(* then interpret_rendering_mode on its table                              *)

\* What the entry page may hold: lengths of the visible text and numbers of
\* script tags on both sides of the thresholds, with or without noscript.
PageContents ==
    [text_len : {0, 199, 200, 201, 5000}, script_len : {0, 20, 21, 22}, noscript : BOOLEAN]

InitRendering ==
    /\ QueueIdle
    /\ u_in = <<Null, Null>>
    /\ u_norm = <<Null, Null>>
    /\ crawldf = Unset
    /\ sitemap_df = Unset
    /\ comp_runs = <<>>
    /\ crawl_result = Unset
    /\ dfs = <<>>
    /\ csv_files = {}
    /\ sections = <<>>
    /\ html_file = NoFile
    /\ pdf_file = NoFile
    /\ pc = "rendering_check"
    /\ call \in [url : {RootUrl}, env : PageContents \cup {Raised}]
    /\ ret = Unset

\* rendering_df = safe_run(check_rendering_mode, ...)
CheckRenderingMode ==
    /\ pc = "rendering_check"
    /\ ret' = [df |-> safe_run(check_rendering_mode(call.url, call.env), RenderingCols)]
    /\ pc' = "rendering_rule"
    /\ UNCHANGED <<queueVars, normVars, comp_runs, crawldf, sitemap_df, crawl_result, dfs, csv_files,
                   sections, html_file, pdf_file, call>>

InterpretRenderingMode ==
    /\ pc = "rendering_rule"
    /\ ret' = [df |-> ret.df, insight |-> interpret_rendering_mode(ret.df)]
    /\ pc' = "rendering_done"
    /\ UNCHANGED <<queueVars, normVars, comp_runs, crawldf, sitemap_df, crawl_result, dfs, csv_files,
                   sections, html_file, pdf_file, call>>

NextRendering == CheckRenderingMode \/ InterpretRenderingMode

SpecRendering == InitRendering /\ [][NextRendering]_vars

RenderingDone == pc = "rendering_done"

\* C24: the entry page is classified "Likely Client-Side Rendered" exactly when
\* its visible text is shorter than 200 characters and it has more than 20
\* script tags, whether or not it has a noscript element; otherwise "Possibly
\* Client-Side Rendered" when it has a noscript element; otherwise "Likely
\* Server-Side Rendered"; and the Rendering Mode insight carries the red flag
\* exactly when the classification is one of the two client-side ones.  When the
\* check failed there is no classification and no red flag.
C24_RenderingClassification ==
    RenderingDone =>
        IF call.env = Raised
        THEN is_empty(ret.df) /\ ret.insight.red_flags = <<>>
        ELSE LET mode == ret.df.rows[1].rendering_mode
                 thin == call.env.text_len < 200 /\ call.env.script_len > 20
             IN  /\ Len(ret.df.rows) = 1
                 /\ mode = ModeCSR <=> thin
                 /\ mode = ModeNoscript <=> (~thin /\ call.env.noscript)
                 /\ mode = ModeSSR <=> (~thin /\ ~call.env.noscript)
                 /\ HasFlag(ret.insight, "client_side_rendered") <=> mode \in {ModeCSR, ModeNoscript}
                 /\ mode = ModeSSR => ret.insight.red_flags = <<>>

\* A page of 199 characters of text and 21 script tags that has a noscript
\* element has been classified "Likely Client-Side Rendered" and flagged.
C24_ThinPageWithNoscriptIsCSR ==
    /\ RenderingDone
    /\ call.env # Raised
    /\ call.env.text_len = 199 /\ call.env.script_len = 21 /\ call.env.noscript
    /\ ret.df.rows[1].rendering_mode = ModeCSR
    /\ ret.insight.red_flags = << Flag("client_side_rendered", 0) >>

-----------------------------------------------------------------------------
(* Specification SpecLinkRule: interpret_internal_links on a table of      *)
(* nodes and a table of edges                                              *)

MaxNodeRows == 2       \* rows of the nodes table
MaxEdgeRows == 4       \* rows of the edges table

NodeRows ==
    { [url |-> u, in_degree |-> 1, out_degree |-> 1, pagerank |-> 500] : u \in {PageP, PageQ} }

EdgeRows ==
    { [source |-> PageP, target |-> PageQ, text |-> <<"t">>, nofollow |-> FALSE],
      [source |-> PageQ, target |-> PageP, text |-> <<"t">>, nofollow |-> FALSE] }

LinkRuleCalls ==
    [nodes_df : { DataFrame(NodeCols, rows) : rows \in SeqsUpTo(NodeRows, MaxNodeRows) }
                    \cup {None, EmptyFrame},
     edges_df : { DataFrame(EdgeCols, rows) : rows \in SeqsUpTo(EdgeRows, MaxEdgeRows) }
                    \cup {None, EmptyFrame}]

InitLinkRule ==
    /\ QueueIdle
    /\ u_in = <<Null, Null>>
    /\ u_norm = <<Null, Null>>
    /\ crawldf = Unset
    /\ sitemap_df = Unset
    /\ comp_runs = <<>>
    /\ crawl_result = Unset
    /\ dfs = <<>>
    /\ csv_files = {}
    /\ sections = <<>>
    /\ html_file = NoFile
    /\ pdf_file = NoFile
    /\ pc = "link_rule"
    /\ call \in LinkRuleCalls
    /\ ret = Unset

InterpretInternalLinks ==
    /\ pc = "link_rule"
    /\ ret' = interpret_internal_links(call.nodes_df, call.edges_df)
    /\ pc' = "link_rule_done"
    /\ UNCHANGED <<queueVars, normVars, comp_runs, crawldf, sitemap_df, crawl_result, dfs, csv_files,
                   sections, html_file, pdf_file, call>>

NextLinkRule == InterpretInternalLinks

SpecLinkRule == InitLinkRule /\ [][NextLinkRule]_vars

LinkRuleDone == pc = "link_rule_done"

\* The number of rows of the edges table, 0 when the table is absent.
EdgeCount == IF call.edges_df = None THEN 0 ELSE Len(call.edges_df.rows)

\* C25: for any non-empty nodes table and any edges table, an absent one
\* counting as zero edges, the Internal Links insight carries the "poorly
\* connected" red flag exactly when the edge count divided by the node count is
\* less than 2, and the rule returns an insight (no division error) for every
\* node count, zero included.
C25_PoorlyConnectedIffUnderTwo ==
    LinkRuleDone =>
        /\ ret # Raised
        /\ ret.kind \in {"rule", "rule_nodata"}
        /\ ~Absent(call.nodes_df) =>
             LET node_count == Len(call.nodes_df.rows)
             IN  /\ HasFlag(ret, "poorly_connected") <=> (EdgeCount \div node_count) < 2
                 /\ Len(ret.red_flags) <= 1

\* The rule has run on two nodes and three edges, one edge short of two per
\* node, and has raised the flag.
C25_ThreeEdgesTwoNodesFlagged ==
    /\ LinkRuleDone
    /\ ~Absent(call.nodes_df)
    /\ Len(call.nodes_df.rows) = 2
    /\ EdgeCount = 3
    /\ ret.red_flags = << Flag("poorly_connected", 0) >>

-----------------------------------------------------------------------------
(* Specification SpecIngest: get_sitemap_df, then report_sitemap_vs_crawl  *)
(* on the table it gave, as main calls them                                *)

\* The two spellings of one page, "http://a/p" and "http://a/P/".
IngestLocs == { PageP, PagePUpper }

IngestRecords ==
    { [loc |-> u, lastmod |-> m[1], sitemap |-> m[2]] :
        u \in IngestLocs, m \in { <<LastmodA, SitemapFileA>>, <<LastmodB, SitemapFileB>> } }

\* What parsing the sitemaps of robots.txt may give.
RobotsSitemapEnvs ==
    { DataFrame(SitemapSchema, rows) : rows \in SeqsUpTo(IngestRecords, MaxSitemapRows) }
        \cup { Raised }

\* What parsing one fallback path may give: a failure, or a sitemap of one entry.
FallbackEnvs == { DataFrame(SitemapSchema, << r >>) : r \in IngestRecords } \cup { Raised }

IngestCrawlTables ==
    { DataFrame(<<"url">>, rows) : rows \in SeqsUpTo({ [url |-> u] : u \in {PageP, PageQ} }, MaxPages) }

InitIngest ==
    /\ QueueIdle
    /\ u_in = <<Null, Null>>
    /\ u_norm = <<Null, Null>>
    /\ crawldf = Unset
    /\ sitemap_df = Unset
    /\ comp_runs = <<>>
    /\ crawl_result = Unset
    /\ dfs = <<>>
    /\ csv_files = {}
    /\ sections = <<>>
    /\ html_file = NoFile
    /\ pdf_file = NoFile
    /\ pc = "ingest"
    /\ call \in [robots_env : RobotsSitemapEnvs, fallback_envs : [1..2 -> FallbackEnvs],
                 crawl_df : IngestCrawlTables]
    /\ ret = Unset

\* sitemap_df = safe_run(get_sitemap_df, ...)
IngestSitemap ==
    /\ pc = "ingest"
    /\ \E kept \in sitemap_kept_choices(call.robots_env, call.fallback_envs) :
         ret' = [sitemap_df |->
                   safe_run(get_sitemap_df(call.robots_env, call.fallback_envs, kept),
                            SitemapSchema)]
    /\ pc' = "ingested"
    /\ UNCHANGED <<queueVars, normVars, comp_runs, crawldf, sitemap_df, crawl_result, dfs, csv_files,
                   sections, html_file, pdf_file, call>>

\* comp_df = safe_run(report_sitemap_vs_crawl, ...)
ReconcileIngested ==
    /\ pc = "ingested"
    /\ \E order \in IterationOrders(all_urls(ret.sitemap_df, call.crawl_df)) :
         ret' = [sitemap_df |-> ret.sitemap_df,
                 comp_df |-> safe_run(report_sitemap_vs_crawl_call(ret.sitemap_df, call.crawl_df,
                                                                   order),
                                      CompExpectedCols)]
    /\ pc' = "reconciled"
    /\ UNCHANGED <<queueVars, normVars, comp_runs, crawldf, sitemap_df, crawl_result, dfs, csv_files,
                   sections, html_file, pdf_file, call>>

NextIngest == IngestSitemap \/ ReconcileIngested

SpecIngest == InitIngest /\ [][NextIngest]_vars

Reconciled == pc = "reconciled"

\* The sitemap entries in ingestion order: those of the sitemaps of robots.txt
\* when they could be parsed, else those of the fallback paths, path after path.
IngestedEntries ==
    IF call.robots_env # Raised /\ ~is_empty(call.robots_env)
    THEN call.robots_env.rows
    ELSE concat(SelectSeq(call.fallback_envs, LAMBDA e : e # Raised))

\* The first entry ingested for the normalized URL u.
FirstIngested(u) ==
    IngestedEntries[CHOOSE k \in 1..Len(IngestedEntries) :
                        /\ normalize_url(IngestedEntries[k].loc) = u
                        /\ \A j \in 1..(k - 1) : normalize_url(IngestedEntries[j].loc) # u]

\* The normalized URLs of the crawl and of the sitemap entries.
UnionOfUrls ==
    { normalize_url(r.url) : r \in RowSet(call.crawl_df) }
        \cup { normalize_url(IngestedEntries[k].loc) : k \in 1..Len(IngestedEntries) }

\* C26 (as claimed): the reconciliation table has exactly one row per distinct
\* normalized URL of the crawl and the sitemap (its url column has no value
\* twice, and it has as many rows as the union has URLs), also when a loc
\* occurs several times among the sitemap entries; and the lastmod and sitemap
\* source of a URL of the sitemap are those of its first entry in ingestion
\* order.
C26_OneRowPerUrlFirstOccurrence ==
    Reconciled =>
        LET rows == ret.comp_df.rows
        IN  /\ \A i, j \in 1..Len(rows) : i # j => rows[i].url # rows[j].url
            /\ Len(rows) = Cardinality(UnionOfUrls)
            /\ { rows[i].url : i \in 1..Len(rows) } = UnionOfUrls
            /\ \A i \in 1..Len(rows) :
                 rows[i].in_sitemap =>
                    /\ rows[i].lastmod = FirstIngested(rows[i].url).lastmod
                    /\ rows[i].sitemap = FirstIngested(rows[i].url).sitemap

\* Two fallback sitemaps list the same loc, the first with lastmod "2024", the
\* second with "2025": the reconciliation row of the URL carries "2025", the
\* lastmod of the later entry.
C26_LaterOccurrenceAttached ==
    /\ Reconciled
    /\ call.robots_env = Raised
    /\ call.fallback_envs[1] # Raised /\ call.fallback_envs[2] # Raised
    /\ call.fallback_envs[1].rows[1].loc = call.fallback_envs[2].rows[1].loc
    /\ call.fallback_envs[1].rows[1].lastmod = LastmodA
    /\ Len(ret.comp_df.rows) = 1
    /\ ret.comp_df.rows[1].lastmod = LastmodB

-----------------------------------------------------------------------------
(* Specification SpecResolveTwice: resolve_url applied to a URL, then to    *)
(* its own result, with one redirect map                                    *)

InitResolveTwice ==
    /\ QueueIdle
    /\ u_in = <<Null, Null>>
    /\ u_norm = <<Null, Null>>
    /\ crawldf = Unset
    /\ sitemap_df = Unset
    /\ comp_runs = <<>>
    /\ crawl_result = Unset
    /\ dfs = <<>>
    /\ csv_files = {}
    /\ sections = <<>>
    /\ html_file = NoFile
    /\ pdf_file = NoFile
    /\ pc = "resolve_first"
    /\ call \in [u : ResolveUrls \cup {Null}, redirect_map : ResolveMaps]
    /\ ret = Unset

ResolveFirst ==
    /\ pc = "resolve_first"
    /\ ret' = [first |-> resolve_url(call.u, call.redirect_map)]
    /\ pc' = "resolve_second"
    /\ UNCHANGED <<queueVars, normVars, comp_runs, crawldf, sitemap_df, crawl_result, dfs, csv_files,
                   sections, html_file, pdf_file, call>>

ResolveSecond ==
    /\ pc = "resolve_second"
    /\ ret' = [first |-> ret.first, second |-> resolve_url(ret.first, call.redirect_map)]
    /\ pc' = "resolved_twice"
    /\ UNCHANGED <<queueVars, normVars, comp_runs, crawldf, sitemap_df, crawl_result, dfs, csv_files,
                   sections, html_file, pdf_file, call>>

NextResolveTwice == ResolveFirst \/ ResolveSecond

SpecResolveTwice == InitResolveTwice /\ [][NextResolveTwice]_vars

\* C27: for every redirect map, cyclic or not, resolving the result of a
\* resolution gives that result again, and a URL that is no key of the map
\* resolves to itself.
C27_ResolveIdempotent ==
    /\ pc \in {"resolve_second", "resolved_twice"} =>
         (call.u \notin DOMAIN call.redirect_map => ret.first = call.u)
    /\ pc = "resolved_twice" => ret.second = ret.first

\* A URL whose redirects lead into a cycle of two other URLs has been resolved
\* twice: the result is a URL of the cycle, a key of the map, both times.
C27_CycleResultResolvedAgain ==
    /\ pc = "resolved_twice"
    /\ call.u # Null
    /\ ret.first # call.u
    /\ ret.first \in DOMAIN call.redirect_map
    /\ call.redirect_map[ret.first] \notin {ret.first, call.u}
    /\ ret.second = ret.first

\* The internal links of the call whose redirect chain ends at a URL that does
\* not match the domain pattern.
LinksLeavingDomain ==
    { i \in 1..Len(call.links) :
        /\ call.links[i].internal
        /\ ~contains(resolve_url(call.links[i].link, call.redirect_map), call.domain_regex) }

\* C28: in the output of report_internal_links with a domain pattern, the target
\* of every row of the edges table matches the domain pattern, an internal link
\* whose redirect chain ends at an external URL having no row, and every URL of
\* the nodes table is the source or the target of at least one row of the edges
\* table.
C28_EdgesInternalNodesConnected ==
    LinksDone =>
        /\ \A e \in RowSet(ret.edges) : contains(e.target, call.domain_regex)
        /\ Len(ret.edges.rows) =
             Cardinality({ i \in 1..Len(call.links) : call.links[i].internal })
               - Cardinality(LinksLeavingDomain)
        /\ \A n \in RowSet(ret.nodes) :
             \E e \in RowSet(ret.edges) : e.source = n.url \/ e.target = n.url

\* The analysis has run on two internal links, one of which redirects to an
\* external URL: the edges table has the other link only, and the page that
\* redirects is no node.
C28_RedirectToExternalDropped ==
    /\ LinksDone
    /\ Len(call.links) = 2
    /\ Cardinality(LinksLeavingDomain) = 1
    /\ Len(ret.edges.rows) = 1
    /\ \A n \in RowSet(ret.nodes) : n.url \notin DOMAIN call.redirect_map

-----------------------------------------------------------------------------
(* Specification SpecQueue: the queue-based API (api/queue-based.py), a    *)
(* request at a time                                                       *)

MaxRequests == 3       \* requests the server receives
MaxSeconds == 1        \* seconds the clock advances

HashModulus == 10000

\* Values hash() may give for a string; 7 and 10007 are equal modulo 10000.
HashValues == { 7, 8, 10007 }

EmailAB == <<"a","@","b">>
EmailCD == <<"c","@","d">>
ValidEmails == { EmailAB, EmailCD }

\* The bodies of a POST: not JSON, or an object with or without "email".
PostBodies ==
    { [json |-> FALSE] }
        \cup { [json |-> TRUE, data |-> <<>>] }
        \cup { [json |-> TRUE, data |-> [email |-> e]] :
                 e \in ValidEmails \cup { <<>>, <<"a","b">> } }

\* f"seo_{int(time.time())}_{hash(email) % 10000}"
job_id_of(second, hash_value) == [second |-> second, h |-> hash_value % HashModulus]

JobIds == { job_id_of(s, h) : s \in 0..MaxSeconds, h \in HashValues }

QueueRequests ==
    { [route |-> "health"] }
        \cup { [route |-> "seo-audit", body |-> b] : b \in PostBodies }
        \cup { [route |-> r, job_id |-> id] : r \in {"status", "download"}, id \in JobIds }

Response(status, body) == [status |-> status, body |-> body]

\* datetime.now().isoformat()
isoformat(t) == <<t.second, t.instant>>

\* dict.get(key) on the registry.
job_get(queue, job_id) == IF job_id \in DOMAIN queue THEN queue[job_id] ELSE None

\* POST /seo-audit: the response and the registry after it.
queue_seo_audit(queue, body, t, hash) ==
    IF ~body.json
    THEN [response |-> Response(500, [error |-> "exception"]), queue |-> queue]
    ELSE LET email == IF "email" \in DOMAIN body.data THEN body.data.email ELSE <<>>
         IN  IF email = <<>> \/ ~contains(email, <<"@">>)
             THEN [response |-> Response(400, [error |-> "Valid email is required"]),
                   queue |-> queue]
             ELSE LET job_id == job_id_of(t.second, hash[email])
                      job == [status |-> "queued", email |-> email,
                              created_at |-> isoformat(t), progress |-> 0]
                  IN  [response |-> Response(202, [job_id |-> job_id, status |-> "queued",
                                                   check_status_url |-> <<"status", job_id>>]),
                       queue |-> (job_id :> job) @@ queue]

\* GET /status/<job_id>
check_job_status(queue, job_id) ==
    LET job == job_get(queue, job_id)
    IN  IF job = None
        THEN Response(404, [error |-> "Job not found"])
        ELSE Response(200, job)

\* The download handler without the test of the job's status.
download_result_unchecked(queue, job_id) ==
    LET job == job_get(queue, job_id)
    IN  IF job = None
        THEN Response(404, [error |-> "Job not found"])
        ELSE Response(200, [download_url |-> job_id])

\* GET /download/<job_id>
download_result(queue, job_id) ==
    LET job == job_get(queue, job_id)
    IN  IF job = None
        THEN Response(404, [error |-> "Job not found"])
        ELSE IF job.status # "completed"
        THEN Response(400, [error |-> "Job not completed yet"])
        ELSE Response(200, [download_url |-> job_id])

InitQueue ==
    /\ u_in = <<Null, Null>>
    /\ u_norm = <<Null, Null>>
    /\ crawldf = Unset
    /\ sitemap_df = Unset
    /\ comp_runs = <<>>
    /\ crawl_result = Unset
    /\ dfs = <<>>
    /\ csv_files = {}
    /\ sections = <<>>
    /\ html_file = NoFile
    /\ pdf_file = NoFile
    /\ pc = "queue_idle"
    /\ call = Unset
    /\ ret = Unset
    /\ job_queue = <<>>
    /\ now = [second |-> 0, instant |-> 0]
    /\ str_hash \in [ValidEmails -> HashValues]

QueueUnchanged ==
    UNCHANGED <<normVars, comp_runs, crawldf, sitemap_df, crawl_result, dfs, csv_files,
                sections, html_file, pdf_file, str_hash>>

\* A request arrives, some time after the one before.
QueueReceive ==
    /\ pc = "queue_idle"
    /\ now.instant < MaxRequests
    /\ call' \in QueueRequests
    /\ now' = [now EXCEPT !.instant = @ + 1]
    /\ pc' = "queue_request"
    /\ QueueUnchanged
    /\ UNCHANGED <<ret, job_queue>>

\* A second goes by.
QueueTick ==
    /\ pc \in {"queue_idle", "queue_request"}
    /\ now.second < MaxSeconds
    /\ now' = [now EXCEPT !.second = @ + 1]
    /\ QueueUnchanged
    /\ UNCHANGED <<pc, call, ret, job_queue>>

HealthCheck ==
    /\ pc = "queue_request"
    /\ call.route = "health"
    /\ ret' = Response(200, [status |-> "healthy", timestamp |-> isoformat(now)])
    /\ pc' = "queue_idle"
    /\ QueueUnchanged
    /\ UNCHANGED <<call, job_queue, now>>

QueueSeoAudit ==
    /\ pc = "queue_request"
    /\ call.route = "seo-audit"
    /\ \E r \in { queue_seo_audit(job_queue, call.body, now, str_hash) } :
         /\ ret' = r.response
         /\ job_queue' = r.queue
    /\ pc' = "queue_idle"
    /\ QueueUnchanged
    /\ UNCHANGED <<call, now>>

CheckJobStatus ==
    /\ pc = "queue_request"
    /\ call.route = "status"
    /\ ret' = check_job_status(job_queue, call.job_id)
    /\ pc' = "queue_idle"
    /\ QueueUnchanged
    /\ UNCHANGED <<call, job_queue, now>>

DownloadResult ==
    /\ pc = "queue_request"
    /\ call.route = "download"
    /\ ret' = download_result(job_queue, call.job_id)
    /\ pc' = "queue_idle"
    /\ QueueUnchanged
    /\ UNCHANGED <<call, job_queue, now>>

QueueHandlers == HealthCheck \/ QueueSeoAudit \/ CheckJobStatus \/ DownloadResult

NextQueue == QueueReceive \/ QueueTick \/ QueueHandlers

SpecQueue == InitQueue /\ [][NextQueue]_vars

\* The server answers every request it has received.
SpecQueueFair == SpecQueue /\ WF_vars(QueueHandlers)

\* The step in which the request of this route is answered.
Handling(route) == pc = "queue_request" /\ call.route = route /\ pc' = "queue_idle"

\* C29: in the queue-based API, after any sequence of POST /seo-audit,
\* GET /status/<id> and GET /download/<id> requests, every job of the registry
\* has status "queued" and progress 0; GET /download/<id> never returns a
\* download: it answers 404 for an unknown id and 400 "Job not completed yet"
\* for every known id; status and download requests leave the registry as it is.
C29_JobsStayQueued ==
    /\ [](pc \in {"queue_idle", "queue_request"} =>
            \A id \in DOMAIN job_queue :
                job_queue[id].status = "queued" /\ job_queue[id].progress = 0)
    /\ [][Handling("download") =>
            /\ ret' = IF call.job_id \in DOMAIN job_queue
                      THEN Response(400, [error |-> "Job not completed yet"])
                      ELSE Response(404, [error |-> "Job not found"])
            /\ job_queue' = job_queue]_vars
    /\ [][Handling("status") => job_queue' = job_queue]_vars

\* The download of a job of the registry has been asked for and refused with 400.
C29_DownloadOfKnownJobRefused ==
    /\ pc = "queue_idle"
    /\ call # Unset
    /\ call.route = "download"
    /\ call.job_id \in DOMAIN job_queue
    /\ ret.status = 400

\* The POST being handled carries an email that is not empty and has an "@".
ValidPost ==
    /\ call.body.json
    /\ "email" \in DOMAIN call.body.data
    /\ call.body.data.email # <<>>
    /\ "@" \in Range(call.body.data.email)

\* C30 (as claimed): every POST /seo-audit that is accepted (202) is given a
\* job id distinct from all ids issued before: the registry gains one entry,
\* and the records it held stay as they were, also when two requests arrive
\* within the same second; a POST whose email is empty or has no "@" is
\* answered 400 and adds no entry.
C30_JobIdsDistinct ==
    /\ [][(Handling("seo-audit") /\ ret'.status = 202) =>
            /\ ret'.body.job_id \notin DOMAIN job_queue
            /\ Cardinality(DOMAIN job_queue') = Cardinality(DOMAIN job_queue) + 1
            /\ \A id \in DOMAIN job_queue : job_queue'[id] = job_queue[id]]_vars
    /\ [][(Handling("seo-audit") /\ call.body.json /\ ~ValidPost) =>
            /\ ret'.status = 400
            /\ job_queue' = job_queue]_vars

\* Two POSTs with the same email were accepted within one second: the
\* registry holds a single entry, created at the second request.
C30_SecondRequestOverwrote ==
    /\ pc = "queue_idle"
    /\ now.instant = 2
    /\ call # Unset
    /\ call.route = "seo-audit"
    /\ ret.status = 202
    /\ Cardinality(DOMAIN job_queue) = 1
    /\ job_queue[ret.body.job_id].created_at = <<now.second, 2>>
    /\ job_queue[ret.body.job_id].email = call.body.data.email

====
